---- MODULE Spec2Model ----
(***************************************************************************)
(* Intercompany licensing chaincode (src/intercomany/intercompanyA.go):    *)
(* accounts, licenses, the two index records, and the invoke-style         *)
(* operations over the key-value world state.                              *)
(*                                                                         *)
(* Strings of the program are TLA+ strings.  Amounts are the float64       *)
(* values of the program restricted to integers (every argument set below  *)
(* keeps products divisible by 60 and 12, so the program's arithmetic is   *)
(* exact on them); the sign of zero is kept because FormatFloat prints it. *)
(***************************************************************************)
EXTENDS Integers, Sequences, FiniteSets, TLC

(***************************************************************************)
(* strconv: characters, integers                                           *)
(***************************************************************************)
\* names a value for the rest of an expression (the value is computed once)
With(value, Rest(_)) == Rest(value)

Char(s, i) == SubSeq(s, i, i)

DigitChars == {"0", "1", "2", "3", "4", "5", "6", "7", "8", "9"}

DigitVal(c) ==
    CASE c = "0" -> 0 [] c = "1" -> 1 [] c = "2" -> 2 [] c = "3" -> 3
      [] c = "4" -> 4 [] c = "5" -> 5 [] c = "6" -> 6 [] c = "7" -> 7
      [] c = "8" -> 8 [] OTHER -> 9

DigitChar(d) ==
    CASE d = 0 -> "0" [] d = 1 -> "1" [] d = 2 -> "2" [] d = 3 -> "3"
      [] d = 4 -> "4" [] d = 5 -> "5" [] d = 6 -> "6" [] d = 7 -> "7"
      [] d = 8 -> "8" [] OTHER -> "9"

AllDigits(s) == \A i \in 1..Len(s) : Char(s, i) \in DigitChars

RECURSIVE DigitsToNat(_)
DigitsToNat(s) ==
    IF Len(s) = 0 THEN 0
    ELSE 10 * DigitsToNat(SubSeq(s, 1, Len(s) - 1)) + DigitVal(Char(s, Len(s)))

RECURSIVE NatToDigits(_)
NatToDigits(n) ==
    IF n < 10 THEN DigitChar(n)
    ELSE NatToDigits(n \div 10) \o DigitChar(n % 10)

RECURSIVE Pow10(_)
Pow10(e) == IF e = 0 THEN 1 ELSE 10 * Pow10(e - 1)

\* index of the first character of s that is in cs, 0 when there is none
FirstOf(s, cs) ==
    With({i \in 1..Len(s) : Char(s, i) \in cs}, LAMBDA hits :
        IF hits = {} THEN 0 ELSE CHOOSE i \in hits : \A j \in hits : i <= j)

\* strconv.ParseInt(s, 10, 64): optional sign, then decimal digits; the
\* value is 0 when the syntax is wrong
ParseInt(s) ==
    With(Len(s) > 0 /\ Char(s, 1) \in {"+", "-"}, LAMBDA signed :
    With(IF signed THEN SubSeq(s, 2, Len(s)) ELSE s, LAMBDA body :
    With(Len(body) > 0 /\ AllDigits(body), LAMBDA ok :
    With(IF ok THEN DigitsToNat(body) ELSE 0, LAMBDA mag :
        [ok |-> ok,
         val |-> IF Len(s) > 0 /\ Char(s, 1) = "-" THEN 0 - mag ELSE mag]))))

\* strconv.FormatInt(i, 10) and strconv.Itoa(i)
FormatInt(i) == IF i < 0 THEN "-" \o NatToDigits(0 - i) ELSE NatToDigits(i)

(***************************************************************************)
(* float64 on integer values, with the sign of zero                        *)
(***************************************************************************)
FZero == [neg |-> FALSE, mag |-> 0]

FVal(x) == IF x.neg THEN 0 - x.mag ELSE x.mag

FFromInt(i) == IF i < 0 THEN [neg |-> TRUE, mag |-> 0 - i]
               ELSE [neg |-> FALSE, mag |-> i]

FNeg(x) == [neg |-> ~x.neg, mag |-> x.mag]

\* IEEE 754 addition: an exact zero sum is +0 unless both operands are -0
FAdd(x, y) ==
    With(FVal(x) + FVal(y), LAMBDA v :
        IF v # 0 THEN FFromInt(v)
        ELSE [neg |-> x.mag = 0 /\ y.mag = 0 /\ x.neg /\ y.neg, mag |-> 0])

FSub(x, y) == FAdd(x, FNeg(y))

FMul(x, y) == [neg |-> x.neg # y.neg, mag |-> x.mag * y.mag]

\* division by a positive integer constant (exact on the argument sets used)
FDiv(x, d) == [neg |-> x.neg, mag |-> x.mag \div d]

\* the comparison with its operands exchanged
FLess_Swapped(x, y) == FVal(y) < FVal(x)

FLess(x, y) == FVal(x) < FVal(y)

FEq(x, y) == FVal(x) = FVal(y)

RECURSIVE StripZeros(_)
StripZeros(s) ==
    IF Len(s) > 1 /\ Char(s, Len(s)) = "0"
    THEN StripZeros(SubSeq(s, 1, Len(s) - 1)) ELSE s

\* strconv.FormatFloat(x, 'E', -1, 64): shortest digits, d.dddE+XX
FormatFloat(x) ==
    With(NatToDigits(x.mag), LAMBDA all :
    With(Len(all) - 1, LAMBDA e :
    With(StripZeros(all), LAMBDA ds :
    With(IF Len(ds) = 1 THEN ds
         ELSE Char(ds, 1) \o "." \o SubSeq(ds, 2, Len(ds)), LAMBDA mant :
    With(IF e < 10 THEN "0" \o NatToDigits(e) ELSE NatToDigits(e), LAMBDA es :
        (IF x.neg THEN "-" ELSE "") \o mant \o "E+" \o es)))))

\* the value of a parsed number: digits * 10^shift
Scale(digits, shift) ==
    IF shift >= 0 THEN digits * Pow10(shift) ELSE digits \div Pow10(0 - shift)

\* strconv.ParseFloat(s, 64) on decimal syntax:
\* [sign] digits [. digits] [(e|E) [sign] digits]; value 0 on a syntax error
ParseFloat(s) ==
    With(Len(s) > 0 /\ Char(s, 1) \in {"+", "-"}, LAMBDA signed :
    With(Len(s) > 0 /\ Char(s, 1) = "-", LAMBDA neg :
    With(IF signed THEN SubSeq(s, 2, Len(s)) ELSE s, LAMBDA body :
    With(FirstOf(body, {"e", "E"}), LAMBDA ePos :
    With(IF ePos = 0 THEN body ELSE SubSeq(body, 1, ePos - 1), LAMBDA mant :
    With(IF ePos = 0 THEN "" ELSE SubSeq(body, ePos + 1, Len(body)), LAMBDA expS :
    With(FirstOf(mant, {"."}), LAMBDA dot :
    With(IF dot = 0 THEN mant ELSE SubSeq(mant, 1, dot - 1), LAMBDA ip :
    With(IF dot = 0 THEN "" ELSE SubSeq(mant, dot + 1, Len(mant)), LAMBDA fp :
    With(ParseInt(expS), LAMBDA exp :
        IF /\ AllDigits(ip) /\ AllDigits(fp) /\ Len(ip) + Len(fp) > 0
           /\ (ePos = 0 \/ exp.ok)
        THEN [ok |-> TRUE,
              val |-> [neg |-> neg,
                       mag |-> Scale(DigitsToNat(ip \o fp),
                                     (IF ePos = 0 THEN 0 ELSE exp.val) - Len(fp))]]
        ELSE [ok |-> FALSE, val |-> FZero]))))))))))

(***************************************************************************)
(* World state: a map from key to stored bytes.  Stored bytes are modelled *)
(* by what encoding/json decodes from them.                                *)
(***************************************************************************)
LicenseIndexStr == "_licenseindex"

AccountIndexStr == "_accountindex"

Nil == [kind |-> "nil"]

\* the zero value License{}
EmptyLicense ==
    [kind |-> "license", LicenseKey |-> "", LicensePartNo |-> "",
     BaseEntityCode |-> "", Quantity |-> "", LicensePrice |-> "",
     SupportFee |-> "", LicenseStartDate |-> "", LicenseEndDate |-> "",
     SupportStartDate |-> "", SupportEndDate |-> "", Currency |-> "",
     LastSettlementDate |-> ""]

\* the zero value IntercompanyAccount{}
EmptyAccount ==
    [kind |-> "account", AccountKey |-> "", DueToEntityCode |-> "",
     DueFromEntityCode |-> "", DueToEntityName |-> "",
     DueFromEntityName |-> "", Currency |-> "", Period |-> "",
     OpeningBalance |-> "", Activity |-> "", PeriodToDateBalance |-> "",
     AccountNo |-> "", AccountName |-> ""]

\* json.Unmarshal(bytes, &License{}): fields are matched by name, so an
\* account object fills only "currency"; anything else leaves the zero value
DecodeLicense(v) ==
    IF v.kind = "license" THEN v
    ELSE IF v.kind = "account" THEN [EmptyLicense EXCEPT !.Currency = v.Currency]
    ELSE EmptyLicense

\* json.Unmarshal(bytes, &IntercompanyAccount{})
DecodeAccount(v) ==
    IF v.kind = "account" THEN v
    ELSE IF v.kind = "license" THEN [EmptyAccount EXCEPT !.Currency = v.Currency]
    ELSE EmptyAccount

\* json.Unmarshal(bytes, &[]string): nil unless the bytes are a string array
DecodeIndex(v) == IF v.kind = "index" THEN v.list ELSE <<>>

IndexValue(list) == [kind |-> "index", list |-> list]

RawValue(text) == [kind |-> "raw", text |-> text]

EmptyMap == [k \in {} |-> Nil]

MapPut(m, k, v) == [j \in DOMAIN m \cup {k} |-> IF j = k THEN v ELSE m[j]]

(***************************************************************************)
(* The stub of one invocation: the committed state it started from, its    *)
(* write set, whether its reads see its own writes, the keys whose writes  *)
(* the store rejects, the wall-clock date, and a log of the calls made.    *)
(***************************************************************************)
NewStub(committed, ownWrites, bad, now) ==
    [base |-> committed, ws |-> EmptyMap, ownWrites |-> ownWrites,
     bad |-> bad, now |-> now, log |-> <<>>]

GetState(stub, key) ==
    IF stub.ownWrites /\ key \in DOMAIN stub.ws THEN stub.ws[key]
    ELSE IF key \in DOMAIN stub.base THEN stub.base[key]
    ELSE Nil

PutState(stub, key, value) ==
    IF key \in stub.bad THEN [stub |-> stub, err |-> TRUE]
    ELSE [stub |-> [stub EXCEPT !.ws = MapPut(@, key, value)], err |-> FALSE]

DelState(stub, key) == PutState(stub, key, Nil)

\* the state after the invocation's write set is applied
Commit(stub) ==
    [k \in {j \in DOMAIN stub.base \cup DOMAIN stub.ws :
               IF j \in DOMAIN stub.ws THEN stub.ws[j] # Nil ELSE TRUE} |->
        IF k \in DOMAIN stub.ws THEN stub.ws[k] ELSE stub.base[k]]

Arg(args, i) == args[i + 1]

Return(stub, fn, args, status, msg) ==
    [stub |-> [stub EXCEPT !.log = Append(@, [fn |-> fn, args |-> args,
                                               status |-> status])],
     status |-> status, msg |-> msg]

Success(stub, fn, args) == Return(stub, fn, args, "OK", "")

Error(stub, fn, args, msg) == Return(stub, fn, args, "ERROR", msg)

\* a run-time panic (slice bounds or index out of range) ends the invocation
Panic(stub, fn, args) == Return(stub, fn, args, "PANIC", "runtime error")

(***************************************************************************)
(* Init                                                                    *)
(***************************************************************************)
ChaincodeInit(stub, args) ==
    IF Len(args) # 1
    THEN Error(stub, "init", args, "Incorrect number of arguments. Expecting a single integer")
    ELSE
    With(ParseInt(Arg(args, 0)), LAMBDA Aval :
        IF ~Aval.ok
        THEN Error(stub, "init", args, "Expecting an integer argument to Init() for instantiate")
        ELSE
        With(PutState(stub, "test_key", RawValue(FormatInt(Aval.val))), LAMBDA p1 :
            IF p1.err THEN Error(p1.stub, "init", args, "put")
            ELSE
            With(PutState(p1.stub, LicenseIndexStr, IndexValue(<<>>)), LAMBDA p2 :
                IF p2.err THEN Error(p2.stub, "init", args, "put")
                ELSE
                With(PutState(p2.stub, AccountIndexStr, IndexValue(<<>>)), LAMBDA p3 :
                    IF p3.err THEN Error(p3.stub, "init", args, "put")
                    ELSE Success(p3.stub, "init", args)))))

(***************************************************************************)
(* read                                                                    *)
(***************************************************************************)
read(stub, args) ==
    IF Len(args) # 1
    THEN Error(stub, "read", args, "Incorrect number of arguments. Expecting key of the var to query")
    ELSE Success(stub, "read", args)

(***************************************************************************)
(* create_account                                                          *)
(***************************************************************************)
\* the index append left out
AppendAccountIndex_NoAppend(stub, accountKey) == stub

\* lines 227-240: append the key to the account index; the response of the
\* index write is not looked at
AppendAccountIndex(stub, accountKey) ==
    PutState(stub, AccountIndexStr,
             IndexValue(Append(DecodeIndex(GetState(stub, AccountIndexStr)),
                               accountKey))).stub

create_account(stub, args) ==
    IF Len(args) # 10
    THEN Error(stub, "create_account", args, "Incorrect number of arguments. Expecting 10")
    ELSE
    With(Arg(args, 0) \o "_" \o Arg(args, 1) \o "_" \o Arg(args, 8), LAMBDA accountKey :
    With(ParseFloat(Arg(args, 6)), LAMBDA openingBalance :
    With(ParseFloat(Arg(args, 7)), LAMBDA activity :
        IF ~openingBalance.ok
        THEN Error(stub, "create_account", args, "7th argument must be a numeric string")
        ELSE IF ~activity.ok
        THEN Error(stub, "create_account", args, "8th argument must be a numeric string")
        ELSE IF DecodeAccount(GetState(stub, accountKey)).AccountKey = accountKey
        THEN Error(stub, "create_account", args, "This account arleady exists")
        ELSE
        With(PutState(stub, accountKey,
                [kind |-> "account", AccountKey |-> accountKey,
                 DueToEntityCode |-> Arg(args, 0),
                 DueFromEntityCode |-> Arg(args, 1),
                 DueToEntityName |-> Arg(args, 2),
                 DueFromEntityName |-> Arg(args, 3),
                 Currency |-> Arg(args, 4), Period |-> Arg(args, 5),
                 OpeningBalance |-> FormatFloat(openingBalance.val),
                 Activity |-> FormatFloat(activity.val),
                 PeriodToDateBalance |->
                     FormatFloat(FAdd(openingBalance.val, activity.val)),
                 AccountNo |-> Arg(args, 8), AccountName |-> Arg(args, 9)]),
             LAMBDA p :
            IF p.err THEN Error(p.stub, "create_account", args, "put")
            ELSE Success(AppendAccountIndex(p.stub, accountKey),
                         "create_account", args)))))

(***************************************************************************)
(* create_license                                                          *)
(***************************************************************************)
\* the index append left out
AppendLicenseIndex_NoAppend(stub, licenseKey) == stub

\* lines 297-310: append the key to the license index; the response of the
\* index write is not looked at
AppendLicenseIndex(stub, licenseKey) ==
    PutState(stub, LicenseIndexStr,
             IndexValue(Append(DecodeIndex(GetState(stub, LicenseIndexStr)),
                               licenseKey))).stub

create_license(stub, args) ==
    IF Len(args) # 11
    THEN Error(stub, "create_license", args, "Incorrect number of arguments. Expecting 11")
    ELSE
    With(Arg(args, 0) \o "_" \o Arg(args, 1), LAMBDA licenseKey :
    With(ParseFloat(Arg(args, 2)), LAMBDA quantity :
    With(ParseFloat(Arg(args, 3)), LAMBDA licensePrice :
    With(ParseFloat(Arg(args, 4)), LAMBDA supportFee :
        IF ~quantity.ok
        THEN Error(stub, "create_license", args, "3rd argument must be a numeric string")
        ELSE IF ~licensePrice.ok
        THEN Error(stub, "create_license", args, "4th argument must be a numeric string")
        ELSE IF ~supportFee.ok
        THEN Error(stub, "create_license", args, "5th argument must be a numeric string")
        ELSE IF DecodeLicense(GetState(stub, licenseKey)).LicenseKey = licenseKey
        THEN Error(stub, "create_license", args, "This license arleady exists")
        ELSE
        With(PutState(stub, licenseKey,
                [kind |-> "license", LicenseKey |-> licenseKey,
                 LicensePartNo |-> Arg(args, 0), BaseEntityCode |-> Arg(args, 1),
                 Quantity |-> FormatFloat(quantity.val),
                 LicensePrice |-> FormatFloat(licensePrice.val),
                 SupportFee |-> FormatFloat(supportFee.val),
                 LicenseStartDate |-> Arg(args, 5), LicenseEndDate |-> Arg(args, 6),
                 SupportStartDate |-> Arg(args, 7), SupportEndDate |-> Arg(args, 8),
                 Currency |-> Arg(args, 9), LastSettlementDate |-> Arg(args, 10)]),
             LAMBDA p :
            IF p.err THEN Error(p.stub, "create_license", args, "put")
            ELSE Success(AppendLicenseIndex(p.stub, licenseKey),
                         "create_license", args))))))

(***************************************************************************)
(* monthDiff                                                               *)
(***************************************************************************)
\* monthDiff without the subtraction of the first month
monthDiff_NoMonthA(dateA, dateB) ==
    IF Len(dateA) < 10 \/ Len(dateB) < 10 THEN [panic |-> TRUE, res |-> 0]
    ELSE [panic |-> FALSE,
          res |-> (ParseInt(SubSeq(dateB, 7, 10)).val
                     - ParseInt(SubSeq(dateA, 7, 10)).val) * 12
                  + ParseInt(SubSeq(dateB, 1, 2)).val]

\* monthDiff returning the distance between the two months, without its sign
monthDiff_Abs(dateA, dateB) ==
    With(monthDiff_NoMonthA(dateA, dateB), LAMBDA r :
    With(IF r.panic THEN 0 ELSE r.res - ParseInt(SubSeq(dateA, 1, 2)).val, LAMBDA d :
        [panic |-> r.panic, res |-> IF d < 0 THEN 0 - d ELSE d]))

\* dateA[0:2] and dateA[6:10] panic on a string shorter than ten characters
monthDiff(dateA, dateB) ==
    IF Len(dateA) < 10 \/ Len(dateB) < 10 THEN [panic |-> TRUE, res |-> 0]
    ELSE
    With(ParseInt(SubSeq(dateA, 1, 2)).val, LAMBDA monthDateA :
    With(ParseInt(SubSeq(dateB, 1, 2)).val, LAMBDA monthDateB :
    With(ParseInt(SubSeq(dateA, 7, 10)).val, LAMBDA yearDateA :
    With(ParseInt(SubSeq(dateB, 7, 10)).val, LAMBDA yearDateB :
        [panic |-> FALSE,
         res |-> (yearDateB - yearDateA) * 12 + monthDateB - monthDateA]))))

(***************************************************************************)
(* addActivityToAccount                                                    *)
(***************************************************************************)
\* addActivityToAccount without the update of periodToDateBalance
addActivityToAccount_ActivityOnly(stub, args) ==
    IF Len(args) < 2
    THEN Error(stub, "addActivityToAccount", args, "Incorrect number of arguments. Expecting 2")
    ELSE
    With(DecodeAccount(GetState(stub, Arg(args, 0))), LAMBDA resAccount :
    With(ParseFloat(Arg(args, 1)).val, LAMBDA amount :
    With(FAdd(ParseFloat(resAccount.Activity).val, amount), LAMBDA newActivity :
    With(PutState(stub, Arg(args, 1),
            [resAccount EXCEPT !.Activity = FormatFloat(newActivity)]),
         LAMBDA p :
        IF p.err THEN Error(p.stub, "addActivityToAccount", args, "put")
        ELSE Success(p.stub, "addActivityToAccount", args)))))

addActivityToAccount(stub, args) ==
    IF Len(args) < 2
    THEN Error(stub, "addActivityToAccount", args, "Incorrect number of arguments. Expecting 2")
    ELSE
    With(DecodeAccount(GetState(stub, Arg(args, 0))), LAMBDA resAccount :
    With(ParseFloat(Arg(args, 1)).val, LAMBDA amount :
    With(ParseFloat(resAccount.Activity).val, LAMBDA activity :
    With(FAdd(activity, amount), LAMBDA newActivity :
    With(ParseFloat(resAccount.PeriodToDateBalance).val, LAMBDA periodToDateBalance :
    With(FAdd(periodToDateBalance, amount), LAMBDA newPeriodToDateBalance :
    With(PutState(stub, Arg(args, 1),
            [resAccount EXCEPT
                !.Activity = FormatFloat(newActivity),
                !.PeriodToDateBalance = FormatFloat(newPeriodToDateBalance)]),
         LAMBDA p :
        IF p.err THEN Error(p.stub, "addActivityToAccount", args, "put")
        ELSE Success(p.stub, "addActivityToAccount", args))))))))

(***************************************************************************)
(* settle_bill                                                             *)
(***************************************************************************)
settle_bill(stub, args) ==
    IF Len(args) < 2
    THEN Error(stub, "settle_bill", args, "Incorrect number of arguments. Expecting 2")
    ELSE
    With(stub.now, LAMBDA currentDate :
    With(DecodeLicense(GetState(stub, Arg(args, 0))), LAMBDA resLicense :
    With(monthDiff(resLicense.LastSettlementDate, currentDate), LAMBDA months :
        IF months.panic THEN Panic(stub, "settle_bill", args)
        ELSE
        With(ParseFloat(resLicense.Quantity).val, LAMBDA quantity :
        With(ParseFloat(resLicense.SupportFee).val, LAMBDA supportFee :
        With(FDiv(FMul(FMul(supportFee, quantity), FFromInt(months.res)), 12),
             LAMBDA supportCharge :
        With(addActivityToAccount(stub, <<Arg(args, 1), FormatFloat(supportCharge)>>),
             LAMBDA a :
        With(PutState(a.stub, Arg(args, 0),
                [resLicense EXCEPT !.LastSettlementDate = currentDate]),
             LAMBDA p :
            IF p.err THEN Error(p.stub, "settle_bill", args, "put")
            ELSE Success(p.stub, "settle_bill", args)))))))))

(***************************************************************************)
(* next_period                                                             *)
(***************************************************************************)
months == <<"Jan", "Feb", "Mar", "Apr", "May", "Jun",
            "Jul", "Aug", "Sep", "Oct", "Nov", "Dec">>

\* the loop over months: the new month and year, "" and "" without a match
NextMonthYear(monthPeriod, yearPeriod) ==
    With({i \in 1..Len(months) : months[i] = monthPeriod}, LAMBDA hits :
        IF hits = {} THEN [month |-> "", year |-> ""]
        ELSE With(CHOOSE j \in hits : TRUE, LAMBDA i :
            IF i < Len(months)
            THEN [month |-> months[i + 1], year |-> FormatInt(yearPeriod)]
            ELSE [month |-> "Jan", year |-> FormatInt(yearPeriod + 1)]))

next_period(stub, args) ==
    IF Len(args) < 1
    THEN Error(stub, "next_period", args, "Incorrect number of arguments. Expecting 1")
    ELSE
    With(DecodeAccount(GetState(stub, Arg(args, 0))), LAMBDA resAccount :
        \* Period[0:3] and Period[4:6] panic on a string shorter than six
        IF Len(resAccount.Period) < 6 THEN Panic(stub, "next_period", args)
        ELSE
        With(SubSeq(resAccount.Period, 1, 3), LAMBDA monthPeriod :
        With(ParseInt(SubSeq(resAccount.Period, 5, 6)).val, LAMBDA yearPeriod :
        With(NextMonthYear(monthPeriod, yearPeriod), LAMBDA new :
        With(new.month \o "-" \o new.year, LAMBDA newPeriod :
            \* args[1] is out of range when one argument was passed
            IF Len(args) < 2 THEN Panic(stub, "next_period", args)
            ELSE
            With(PutState(stub, Arg(args, 1),
                    [resAccount EXCEPT
                        !.Period = newPeriod,
                        !.OpeningBalance = resAccount.PeriodToDateBalance,
                        !.Activity = FormatFloat(FZero)]),
                 LAMBDA p :
                IF p.err THEN Error(p.stub, "next_period", args, "put")
                ELSE Success(p.stub, "next_period", args)))))))

(***************************************************************************)
(* delete_license                                                          *)
(***************************************************************************)
\* the head of the list removed, whatever the key
RemoveFirst_DropHead(list, key) == IF list = <<>> THEN <<>> ELSE Tail(list)

\* the loop that removes the first occurrence of key from the index
RECURSIVE RemoveFirst(_, _)
RemoveFirst(list, key) ==
    IF list = <<>> THEN <<>>
    ELSE IF Head(list) = key THEN Tail(list)
    ELSE <<Head(list)>> \o RemoveFirst(Tail(list), key)

delete_license(stub, args) ==
    IF Len(args) # 1
    THEN Error(stub, "delete_license", args, "Incorrect number of arguments. Expecting 1")
    ELSE
    With(Arg(args, 0), LAMBDA licenseKey :
    With(DelState(stub, licenseKey), LAMBDA d :
        IF d.err THEN Error(d.stub, "delete_license", args, "Failed to delete state")
        ELSE
        With(DecodeIndex(GetState(d.stub, LicenseIndexStr)), LAMBDA licenseIndex :
            Success(PutState(d.stub, LicenseIndexStr,
                             IndexValue(RemoveFirst(licenseIndex, licenseKey))).stub,
                    "delete_license", args))))

(***************************************************************************)
(* transfer_license                                                        *)
(***************************************************************************)
\* lines 377-380 and 386-389: post the license charge to the first account
\* and its negation to the second; the responses are not looked at
PostLicenseCharge(stub, args, licenseChargeStr, negLicenseChargeStr) ==
    addActivityToAccount(
        addActivityToAccount(stub, <<Arg(args, 3), licenseChargeStr>>).stub,
        <<Arg(args, 4), negLicenseChargeStr>>).stub

\* the merge with the target's bill settled after its quantity is changed
TransferTarget_SettleAfter(stub, args, resLicenseA, resLicenseB, newLicenseKey, transferedQuantity, licenseChargeStr, negLicenseChargeStr) ==
    IF resLicenseB.LicenseKey = newLicenseKey
    THEN
        With(PutState(stub, newLicenseKey,
                [resLicenseB EXCEPT
                    !.Quantity = FormatFloat(FAdd(ParseFloat(resLicenseB.Quantity).val,
                                                  transferedQuantity)),
                    !.LastSettlementDate = stub.now]),
             LAMBDA p :
            [stub |-> PostLicenseCharge(
                          settle_bill(p.stub, <<newLicenseKey, Arg(args, 6)>>).stub,
                          args, licenseChargeStr, negLicenseChargeStr),
             status |-> "OK", msg |-> ""])
    ELSE
        With(create_license(stub,
                <<resLicenseA.LicensePartNo, Arg(args, 1), Arg(args, 2),
                  resLicenseA.LicensePrice, resLicenseA.SupportFee,
                  resLicenseA.LicenseStartDate, resLicenseA.LicenseEndDate,
                  resLicenseA.SupportStartDate, resLicenseA.SupportEndDate,
                  resLicenseA.Currency, stub.now>>),
             LAMBDA c :
            [stub |-> PostLicenseCharge(c.stub, args, licenseChargeStr,
                                        negLicenseChargeStr),
             status |-> "OK", msg |-> ""])

\* the created target with the source's last settlement date
TransferTarget_SourceDate(stub, args, resLicenseA, resLicenseB, newLicenseKey, transferedQuantity, licenseChargeStr, negLicenseChargeStr) ==
    IF resLicenseB.LicenseKey = newLicenseKey
    THEN
        With(settle_bill(stub, <<newLicenseKey, Arg(args, 6)>>), LAMBDA s :
        With(PutState(s.stub, newLicenseKey,
                [resLicenseB EXCEPT
                    !.Quantity = FormatFloat(FAdd(ParseFloat(resLicenseB.Quantity).val,
                                                  transferedQuantity)),
                    !.LastSettlementDate = stub.now]),
             LAMBDA p :
            [stub |-> PostLicenseCharge(p.stub, args, licenseChargeStr,
                                        negLicenseChargeStr),
             status |-> "OK", msg |-> ""]))
    ELSE
        With(create_license(stub,
                <<resLicenseA.LicensePartNo, Arg(args, 1), Arg(args, 2),
                  resLicenseA.LicensePrice, resLicenseA.SupportFee,
                  resLicenseA.LicenseStartDate, resLicenseA.LicenseEndDate,
                  resLicenseA.SupportStartDate, resLicenseA.SupportEndDate,
                  resLicenseA.Currency, resLicenseA.LastSettlementDate>>),
             LAMBDA c :
            [stub |-> PostLicenseCharge(c.stub, args, licenseChargeStr,
                                        negLicenseChargeStr),
             status |-> "OK", msg |-> ""])

\* lines 365-391: merge into the license at newLicenseKey, or create it, and
\* post the license charge; the responses of the calls are not looked at
TransferTarget(stub, args, resLicenseA, resLicenseB, newLicenseKey, transferedQuantity, licenseChargeStr, negLicenseChargeStr) ==
    IF resLicenseB.LicenseKey = newLicenseKey
    THEN
        With(settle_bill(stub, <<newLicenseKey, Arg(args, 6)>>), LAMBDA s :
            IF s.status = "PANIC" THEN Panic(s.stub, "transfer_license", args)
            ELSE
            With(ParseFloat(resLicenseB.Quantity).val, LAMBDA previousQuantity :
            With(PutState(s.stub, newLicenseKey,
                    [resLicenseB EXCEPT
                        !.Quantity = FormatFloat(FAdd(previousQuantity,
                                                      transferedQuantity)),
                        !.LastSettlementDate = stub.now]),
                 LAMBDA p :
                IF p.err THEN Error(p.stub, "transfer_license", args, "put")
                ELSE [stub |-> PostLicenseCharge(p.stub, args, licenseChargeStr,
                                                 negLicenseChargeStr),
                      status |-> "OK", msg |-> ""])))
    ELSE
        With(create_license(stub,
                <<resLicenseA.LicensePartNo, Arg(args, 1), Arg(args, 2),
                  resLicenseA.LicensePrice, resLicenseA.SupportFee,
                  resLicenseA.LicenseStartDate, resLicenseA.LicenseEndDate,
                  resLicenseA.SupportStartDate, resLicenseA.SupportEndDate,
                  resLicenseA.Currency, stub.now>>),
             LAMBDA c :
            [stub |-> PostLicenseCharge(c.stub, args, licenseChargeStr,
                                        negLicenseChargeStr),
             status |-> "OK", msg |-> ""])

\* the source's bill settled after its quantity is lowered
TransferSource_SettleAfter(stub, args, resLicenseA, originalQuantity, transferedQuantity) ==
    IF FEq(originalQuantity, transferedQuantity)
    THEN Success(delete_license(
                     settle_bill(stub, <<Arg(args, 0), Arg(args, 5)>>).stub,
                     <<Arg(args, 0)>>).stub,
                 "transfer_license", args)
    ELSE
    With(PutState(stub, Arg(args, 0),
            [resLicenseA EXCEPT
                !.Quantity = FormatFloat(FSub(originalQuantity, transferedQuantity)),
                !.LastSettlementDate = stub.now]),
         LAMBDA p :
        Success(settle_bill(p.stub, <<Arg(args, 0), Arg(args, 5)>>).stub,
                "transfer_license", args))

\* lines 393-412: settle the source, then delete it or lower its quantity
TransferSource(stub, args, resLicenseA, originalQuantity, transferedQuantity) ==
    With(settle_bill(stub, <<Arg(args, 0), Arg(args, 5)>>), LAMBDA s :
        IF s.status = "PANIC" THEN Panic(s.stub, "transfer_license", args)
        ELSE IF FEq(originalQuantity, transferedQuantity)
        THEN Success(delete_license(s.stub, <<Arg(args, 0)>>).stub,
                     "transfer_license", args)
        ELSE
        With(PutState(s.stub, Arg(args, 0),
                [resLicenseA EXCEPT
                    !.Quantity = FormatFloat(FSub(originalQuantity,
                                                  transferedQuantity)),
                    !.LastSettlementDate = stub.now]),
             LAMBDA p :
            IF p.err THEN Error(p.stub, "transfer_license", args, "put")
            ELSE Success(p.stub, "transfer_license", args)))

\* lines 342-346: transferedQuantity * months * licensePrice / 60
LicenseCharge(transferedQuantity, monthsRes, licensePrice) ==
    FDiv(FMul(FMul(transferedQuantity, FFromInt(monthsRes)), licensePrice), 60)

\* lines 352-414, once the quantities and the charge are known
TransferChecked(stub, args, resLicenseA, originalQuantity, transferedQuantity, licenseCharge) ==
    IF FLess(originalQuantity, transferedQuantity)
    THEN Error(stub, "transfer_license", args, "No enough license to transfer")
    ELSE
    With(resLicenseA.LicensePartNo \o "_" \o Arg(args, 1), LAMBDA newLicenseKey :
    With(TransferTarget(stub, args, resLicenseA,
                        DecodeLicense(GetState(stub, newLicenseKey)),
                        newLicenseKey, transferedQuantity,
                        FormatFloat(licenseCharge),
                        FormatFloat(FNeg(licenseCharge))),
         LAMBDA t :
        IF t.status # "OK" THEN t
        ELSE TransferSource(t.stub, args, resLicenseA, originalQuantity,
                            transferedQuantity)))

\* transfer_license without the test of the parse of its third argument
transfer_license_NoQuantityCheck(stub, args) ==
    IF Len(args) # 7
    THEN Error(stub, "transfer_license", args, "Incorrect number of arguments. Expecting 7")
    ELSE
    With(DecodeLicense(GetState(stub, Arg(args, 0))), LAMBDA resLicenseA :
    With(monthDiff(resLicenseA.LicenseStartDate, stub.now), LAMBDA monthsRes :
        IF monthsRes.panic THEN Panic(stub, "transfer_license", args)
        ELSE
        With(ParseFloat(Arg(args, 2)), LAMBDA transferedQuantity :
            TransferChecked(stub, args, resLicenseA,
                ParseFloat(resLicenseA.Quantity).val,
                transferedQuantity.val,
                LicenseCharge(transferedQuantity.val, monthsRes.res,
                              ParseFloat(resLicenseA.LicensePrice).val)))))

transfer_license(stub, args) ==
    IF Len(args) # 7
    THEN Error(stub, "transfer_license", args, "Incorrect number of arguments. Expecting 7")
    ELSE
    With(DecodeLicense(GetState(stub, Arg(args, 0))), LAMBDA resLicenseA :
    With(monthDiff(resLicenseA.LicenseStartDate, stub.now), LAMBDA monthsRes :
        IF monthsRes.panic THEN Panic(stub, "transfer_license", args)
        ELSE
        With(ParseFloat(Arg(args, 2)), LAMBDA transferedQuantity :
            IF ~transferedQuantity.ok
            THEN Error(stub, "transfer_license", args,
                       "3rd argument must be a numeric string")
            ELSE TransferChecked(stub, args, resLicenseA,
                     ParseFloat(resLicenseA.Quantity).val,
                     transferedQuantity.val,
                     LicenseCharge(transferedQuantity.val, monthsRes.res,
                                   ParseFloat(resLicenseA.LicensePrice).val)))))

(***************************************************************************)
(* Invoke                                                                  *)
(***************************************************************************)
Invoke(stub, function, args) ==
    IF function = "init" THEN ChaincodeInit(stub, args)
    ELSE IF function = "read" THEN read(stub, args)
    ELSE IF function = "create_account" THEN create_account(stub, args)
    ELSE IF function = "create_license" THEN create_license(stub, args)
    ELSE IF function = "transfer_license" THEN transfer_license(stub, args)
    ELSE IF function = "delete_license" THEN delete_license(stub, args)
    ELSE IF function = "settle_bill" THEN settle_bill(stub, args)
    ELSE IF function = "next_period" THEN next_period(stub, args)
    ELSE Error(stub, function, args,
               "Received unknown invoke function name - '" \o function \o "'")

(***************************************************************************)
(* The state machine: the committed world state, the host's read mode, the *)
(* wall clock, and a record of the last invocation.                        *)
(***************************************************************************)
VARIABLES
    store,      \* committed world state: key -> stored value
    ownWrites,  \* whether GetState returns the invocation's own writes
    clock,      \* months elapsed since January 2024
    last,       \* the last invocation: function, arguments, response, the
                \* state it started from, the date it ran at, its call log,
                \* the keys whose writes the store rejected
    prevSettle, \* the invocation before it, when that was a successful
                \* settle_bill: its arguments and date; <<>> otherwise
    run,        \* the current run of consecutive next_period calls on one
                \* account: key, length, the period the run started from
    steps       \* number of invocations so far

vars == <<store, ownWrites, clock, last, prevSettle, run, steps>>

MaxSteps == 4

MaxTicks == 2

Pad2(n) == IF n < 10 THEN "0" \o NatToDigits(n) ELSE NatToDigits(n)

\* time.Now().Format("01-02-2006"), on the first day of the month
Today(c) == Pad2((c % 12) + 1) \o "-01-" \o FormatInt(2024 + (c \div 12))

Has(st, key) == key \in DOMAIN st

NoRun == [key |-> "", n |-> 0, from |-> ""]

\* arguments of the invocations
AccountArgs ==
    {<<"A", "B", "Alpha", "Beta", "USD", "Jan-2024", "1000", act, no, "AR">> :
        act \in {"0", "250"}, no \in {"1"}}

LicenseArgs ==
    {<<"P1", "E1", q, "120", "12", "01-01-2024", "12-31-2028",
       "01-01-2024", "12-31-2028", "USD", "01-01-2024">> : q \in {"10", "-5"}}

TransferArgs ==
    {<<"P1_E1", "E2", q, "A_B_1", "A_B_1", "A_B_1", "A_B_1">> :
        q \in {"4", "10", "11"}}

DeleteArgs == {<<"P1_E1">>, <<"A_B_1">>}

SettleArgs == {<<"P1_E1", "A_B_1">>}

PeriodArgs == {<<"A_B_1">>, <<"A_B_1", "A_B_1">>}

InitArgs == {<<"1">>}

ReadArgs == {<<"A_B_1">>}

UnknownFunctions == {"add_activity"}

Deployed == ChaincodeInit(NewStub(EmptyMap, FALSE, {}, Today(0)), <<"1">>)

Init ==
    /\ store = Commit(Deployed.stub)
    /\ ownWrites \in BOOLEAN
    /\ clock = 0
    /\ last = [fn |-> "init", args |-> <<"1">>, status |-> Deployed.status,
               msg |-> Deployed.msg, pre |-> EmptyMap, now |-> Today(0),
               log |-> Deployed.stub.log, bad |-> {}]
    /\ prevSettle = <<>>
    /\ run = NoRun
    /\ steps = 0

\* one invocation through Invoke, on a store that rejects the writes to the
\* keys of bad; the host commits the write set of an invocation that
\* returned success and nothing otherwise
StepOn(function, args, bad) ==
    /\ steps < MaxSteps
    /\ \E r \in {Invoke(NewStub(store, ownWrites, bad, Today(clock)), function, args)} :
           /\ store' = IF r.status = "OK" THEN Commit(r.stub) ELSE store
           /\ last' = [fn |-> function, args |-> args, status |-> r.status,
                       msg |-> r.msg, pre |-> store, now |-> Today(clock),
                       log |-> r.stub.log, bad |-> bad]
    /\ prevSettle' = IF last.fn = "settle_bill" /\ last.status = "OK"
                     THEN <<last.args, last.now>> ELSE <<>>
    /\ run' = IF function = "next_period" /\ Len(args) >= 1
              THEN IF run.n > 0 /\ run.key = args[1]
                   THEN [run EXCEPT !.n = @ + 1]
                   ELSE [key |-> args[1], n |-> 1,
                         from |-> DecodeAccount(IF Has(store, args[1])
                                                THEN store[args[1]] ELSE Nil).Period]
              ELSE NoRun
    /\ steps' = steps + 1
    /\ UNCHANGED <<ownWrites, clock>>

\* an invocation on a store that accepts every write
Step(function, args) == StepOn(function, args, {})

DoInit == \E args \in InitArgs : Step("init", args)

DoRead == \E args \in ReadArgs : Step("read", args)

DoCreateAccount == \E args \in AccountArgs : Step("create_account", args)

DoCreateLicense == \E args \in LicenseArgs : Step("create_license", args)

DoTransferLicense == \E args \in TransferArgs : Step("transfer_license", args)

DoDeleteLicense == \E args \in DeleteArgs : Step("delete_license", args)

DoSettleBill == \E args \in SettleArgs : Step("settle_bill", args)

DoNextPeriod == \E args \in PeriodArgs : Step("next_period", args)

DoUnknown == \E f \in UnknownFunctions : Step(f, <<"A_B_1", "1">>)

\* a month passes
Tick ==
    /\ clock < MaxTicks
    /\ clock' = clock + 1
    /\ UNCHANGED <<store, ownWrites, last, prevSettle, run, steps>>

Next ==
    \/ DoInit
    \/ DoRead
    \/ DoCreateAccount
    \/ DoCreateLicense
    \/ DoTransferLicense
    \/ DoDeleteLicense
    \/ DoSettleBill
    \/ DoNextPeriod
    \/ DoUnknown
    \/ Tick

Spec == Init /\ [][Next]_vars

(***************************************************************************)
(* A second input space: a license whose part number contains the          *)
(* separator, so that its key is also the key of an account.               *)
(***************************************************************************)
CollideLicenseArgs ==
    {<<"A_B", "1", "10", "120", "12", "01-01-2024", "12-31-2028",
       "01-01-2024", "12-31-2028", "USD", "01-01-2024">>}

CollideTransferArgs ==
    {<<"A_B_1", "E2", q, "A_B_1", "A_B_1", "A_B_1", "A_B_1">> : q \in {"4", "10"}}

CollideCreateLicense ==
    \E args \in CollideLicenseArgs : Step("create_license", args)

CollideTransferLicense ==
    \E args \in CollideTransferArgs : Step("transfer_license", args)

NextCollide ==
    \/ CollideCreateLicense
    \/ CollideTransferLicense
    \/ DoCreateAccount
    \/ DoSettleBill
    \/ DoDeleteLicense
    \/ Tick

SpecCollide == Init /\ [][NextCollide]_vars

(***************************************************************************)
(* Vocabulary of the properties                                            *)
(***************************************************************************)
Range(seq) == {seq[i] : i \in 1..Len(seq)}

\* the program's own test that a key holds an account / a license
IsAccountAt(st, key) == Has(st, key) /\ DecodeAccount(st[key]).AccountKey = key

IsLicenseAt(st, key) == Has(st, key) /\ DecodeLicense(st[key]).LicenseKey = key

AccountRecords(st) == {k \in DOMAIN st : st[k].kind = "account"}

LicenseRecords(st) == {k \in DOMAIN st : st[k].kind = "license"}

IndexOf(st, indexKey) == IF Has(st, indexKey) THEN DecodeIndex(st[indexKey]) ELSE <<>>

Num(s) == FVal(ParseFloat(s).val)

\* the postings of the last invocation, in order: <<accountKey, amount>>
Postings ==
    SelectSeq(last.log, LAMBDA e : e.fn = "addActivityToAccount")

Succeeded(fn) == last.fn = fn /\ last.status = "OK"

(***************************************************************************)
(* C1: every account record in the store has periodToDateBalance equal to  *)
(* openingBalance + activity; the three fields of a record that stems from *)
(* create_account are numeric strings.                                     *)
(***************************************************************************)
BalanceHolds(r) ==
    /\ r.AccountKey # "" =>
          /\ ParseFloat(r.OpeningBalance).ok
          /\ ParseFloat(r.Activity).ok
          /\ ParseFloat(r.PeriodToDateBalance).ok
    /\ Num(r.PeriodToDateBalance) = Num(r.OpeningBalance) + Num(r.Activity)

C1_BalanceInvariant ==
    \A k \in AccountRecords(store) : BalanceHolds(store[k])

\* a posting of a non-zero charge on an existing account has been committed
C1_Witness ==
    /\ last.status = "OK"
    /\ \E i \in 1..Len(Postings) :
          /\ IsAccountAt(last.pre, Postings[i].args[1])
          /\ Num(Postings[i].args[2]) # 0
    /\ \E k \in AccountRecords(store) :
          store[k].AccountKey # "" /\ Num(store[k].Activity) \notin {0, 250}

(***************************************************************************)
(* C2: transfer_license with a transfer quantity greater than the quantity *)
(* of the source license fails with "No enough license to transfer" and    *)
(* leaves the world state as it was.                                       *)
(***************************************************************************)
C2_Case ==
    /\ last.fn = "transfer_license"
    /\ Len(last.args) = 7
    /\ IsLicenseAt(last.pre, last.args[1])
    /\ ParseFloat(last.args[3]).ok
    /\ Num(last.pre[last.args[1]].Quantity) < Num(last.args[3])

C3_Case ==
    /\ Succeeded("transfer_license")
    /\ IsLicenseAt(last.pre, last.args[1])
    /\ Num(last.pre[last.args[1]].Quantity) = Num(last.args[3])

C3_FullTransferRemovesSource ==
    C3_Case => /\ ~Has(store, last.args[1])
               /\ last.args[1] \notin Range(IndexOf(store, LicenseIndexStr))

(***************************************************************************)
(* C4: the keys of LicenseIndex are exactly the keys that hold a license   *)
(* record, and the keys of AccountIndex exactly those that hold an account *)
(* record.                                                                 *)
(***************************************************************************)
C4_IndexesMatchRecords ==
    /\ Range(IndexOf(store, LicenseIndexStr)) = LicenseRecords(store)
    /\ Range(IndexOf(store, AccountIndexStr)) = AccountRecords(store)

(***************************************************************************)
(* C5: no index lists a key twice, and two keys that stay in an index keep *)
(* their relative order across an invocation.                              *)
(***************************************************************************)
NoDuplicates(seq) == \A i, j \in 1..Len(seq) : seq[i] = seq[j] => i = j

First(seq, key) == CHOOSE i \in 1..Len(seq) :
                      seq[i] = key /\ \A j \in 1..(i - 1) : seq[j] # key

OrderKept(old, new) ==
    \A a, b \in Range(old) \cap Range(new) :
        First(old, a) < First(old, b) => First(new, a) < First(new, b)

C5_NoDuplicatesOrderKept ==
    /\ NoDuplicates(IndexOf(store, LicenseIndexStr))
    /\ NoDuplicates(IndexOf(store, AccountIndexStr))
    /\ OrderKept(IndexOf(last.pre, LicenseIndexStr), IndexOf(store, LicenseIndexStr))
    /\ OrderKept(IndexOf(last.pre, AccountIndexStr), IndexOf(store, AccountIndexStr))

(***************************************************************************)
(* C6: every license record in the store has quantity >= 0.                *)
(***************************************************************************)
C6_QuantityNonNegative ==
    \A k \in LicenseRecords(store) : Num(store[k].Quantity) >= 0

(***************************************************************************)
(* C7: a settle_bill that directly follows a successful settle_bill of the *)
(* same license and account, with no month elapsed in between, posts a     *)
(* charge of zero and leaves the account's activity and                    *)
(* periodToDateBalance as the first call left them.                        *)
(***************************************************************************)
SameMonth(dateA, dateB) ==
    /\ SubSeq(dateA, 1, 2) = SubSeq(dateB, 1, 2)
    /\ SubSeq(dateA, 7, 10) = SubSeq(dateB, 7, 10)

C7_Case ==
    /\ Succeeded("settle_bill")
    /\ prevSettle # <<>>
    /\ prevSettle[1] = last.args
    /\ SameMonth(prevSettle[2], last.now)
    /\ IsAccountAt(last.pre, last.args[2])

C7_SecondSettleChargesNothing ==
    C7_Case =>
        /\ Len(Postings) = 1
        /\ Postings[1].args[1] = last.args[2]
        /\ Num(Postings[1].args[2]) = 0
        /\ IsAccountAt(store, last.args[2])
        /\ store[last.args[2]].Activity = last.pre[last.args[2]].Activity
        /\ store[last.args[2]].PeriodToDateBalance =
              last.pre[last.args[2]].PeriodToDateBalance

\* the second call happened after a first one that was run a month or more
\* after the license's previous settlement
C7_Witness == C7_Case /\ IsLicenseAt(store, last.args[1]) /\ clock > 0

(***************************************************************************)
(* C8: a posting of an amount on an existing account raises activity and   *)
(* periodToDateBalance of the record stored under the account key by that  *)
(* amount (observed on the one posting that settle_bill makes).            *)
(***************************************************************************)
C8_Case ==
    /\ Succeeded("settle_bill")
    /\ IsAccountAt(last.pre, last.args[2])
    /\ Len(Postings) = 1
    /\ Postings[1].args[1] = last.args[2]

C8_PostingPersistedUnderAccountKey ==
    C8_Case =>
        LET key    == last.args[2]
            amount == Num(Postings[1].args[2])
        IN  /\ IsAccountAt(store, key)
            /\ Num(store[key].Activity) = Num(last.pre[key].Activity) + amount
            /\ Num(store[key].PeriodToDateBalance) =
                  Num(last.pre[key].PeriodToDateBalance) + amount

(***************************************************************************)
(* C9: next_period on an existing account stores, under the account key, a *)
(* record whose openingBalance is the previous periodToDateBalance, whose  *)
(* activity is 0 and whose period is the following calendar month          *)
(* (December rolls to January of the next year).                           *)
(***************************************************************************)
\* the calendar month after a "Mon-YYYY" label
FollowingMonth(period) ==
    LET m == SubSeq(period, 1, 3)
        y == ParseInt(SubSeq(period, 5, Len(period))).val
        i == CHOOSE j \in 1..12 : months[j] = m
    IN  IF i < 12 THEN months[i + 1] \o "-" \o FormatInt(y)
        ELSE "Jan-" \o FormatInt(y + 1)

WellFormedPeriod(period) ==
    /\ Len(period) = 8
    /\ SubSeq(period, 1, 3) \in Range(months)
    /\ Char(period, 4) = "-"
    /\ AllDigits(SubSeq(period, 5, 8))

C9_Case ==
    /\ last.fn = "next_period"
    /\ Len(last.args) >= 1
    /\ IsAccountAt(last.pre, last.args[1])
    /\ WellFormedPeriod(last.pre[last.args[1]].Period)

C9_NextPeriodRolls ==
    C9_Case =>
        LET key == last.args[1]
            old == last.pre[key]
        IN  /\ last.status = "OK"
            /\ IsAccountAt(store, key)
            /\ store[key].OpeningBalance = old.PeriodToDateBalance
            /\ ParseFloat(store[key].Activity).ok
            /\ Num(store[key].Activity) = 0
            /\ store[key].Period = FollowingMonth(old.Period)

(***************************************************************************)
(* C10: after n >= 1 consecutive next_period calls on one account, its     *)
(* activity is 0 and its period is n calendar months after the period the  *)
(* run started from.                                                       *)
(***************************************************************************)
RECURSIVE AddMonths(_, _)
AddMonths(period, n) ==
    IF n = 0 THEN period ELSE AddMonths(FollowingMonth(period), n - 1)

C10_Case == run.n >= 1 /\ WellFormedPeriod(run.from)

C10_RepeatedNextPeriod ==
    C10_Case =>
        /\ IsAccountAt(store, run.key)
        /\ Num(store[run.key].Activity) = 0
        /\ store[run.key].Period = AddMonths(run.from, run.n)

(***************************************************************************)
(* C11: create_account on a key that already holds an account record fails *)
(* with "This account arleady exists" and leaves the state as it was; on a *)
(* key that holds no record it stores the account with periodToDateBalance *)
(* = openingBalance + activity and appends the key to AccountIndex.        *)
(***************************************************************************)
C11_Key == last.args[1] \o "_" \o last.args[2] \o "_" \o last.args[9]

C11_Call ==
    /\ last.fn = "create_account"
    /\ Len(last.args) = 10
    /\ ParseFloat(last.args[7]).ok
    /\ ParseFloat(last.args[8]).ok

C11_Exists == C11_Call /\ IsAccountAt(last.pre, C11_Key)

C11_Free == C11_Call /\ ~Has(last.pre, C11_Key)

C12_Key == last.args[1] \o "_" \o last.args[2]

C12_Call ==
    /\ last.fn = "create_license"
    /\ Len(last.args) = 11
    /\ ParseFloat(last.args[3]).ok
    /\ ParseFloat(last.args[4]).ok
    /\ ParseFloat(last.args[5]).ok

C12_Exists == C12_Call /\ IsLicenseAt(last.pre, C12_Key)

C12_Free == C12_Call /\ ~Has(last.pre, C12_Key)

C13_Case ==
    /\ last.fn = "transfer_license"
    /\ Len(last.args) = 7
    /\ ~Has(last.pre, last.args[1])

C13_AbsentSourceFails ==
    C13_Case => last.status = "ERROR" /\ store = last.pre

(***************************************************************************)
(* C14: a posting on an account key that holds no record fails and writes  *)
(* nothing (observed on the one posting that settle_bill makes).           *)
(***************************************************************************)
C14_Case ==
    /\ last.fn = "settle_bill"
    /\ Len(Postings) = 1
    /\ ~Has(last.pre, Postings[1].args[1])

C14_PostingOnAbsentAccountFails ==
    C14_Case =>
        /\ Postings[1].status = "ERROR"
        /\ \A k \in DOMAIN store \ DOMAIN last.pre : k = last.args[1]

(***************************************************************************)
(* C15: settle_bill with a license key or an account key that holds no     *)
(* record returns a failure, and the keys that hold a record are the same  *)
(* before and after the call.                                              *)
(***************************************************************************)
C15_Case ==
    /\ last.fn = "settle_bill"
    /\ Len(last.args) = 2
    /\ ~Has(last.pre, last.args[1]) \/ ~Has(last.pre, last.args[2])

C15_SettleOnAbsentKeyFails ==
    C15_Case => last.status = "ERROR" /\ DOMAIN store = DOMAIN last.pre

(***************************************************************************)
(* A third input space: invocations with a missing, an empty or a          *)
(* non-numeric argument, next to well-formed creations.                    *)
(***************************************************************************)
InvalidAccountArgs ==
    {<<"A", "B", "", "Beta", "USD", "Jan-2024", "1000", "0", "1", "AR">>,
     <<"A", "B", "Alpha", "Beta", "USD", "Jan-2024", "abc", "0", "1", "AR">>,
     <<"A", "B", "Alpha", "Beta", "USD", "Jan-2024", "1000", "", "1", "AR">>,
     <<"A", "B", "Alpha", "Beta", "USD", "Jan-2024", "1000", "0", "1">>}

InvalidLicenseArgs ==
    {<<"P1", "E1", "abc", "120", "12", "01-01-2024", "12-31-2028",
       "01-01-2024", "12-31-2028", "USD", "01-01-2024">>,
     <<"P1", "E1", "10", "", "12", "01-01-2024", "12-31-2028",
       "01-01-2024", "12-31-2028", "USD", "01-01-2024">>,
     <<"P1", "E1", "10", "120", "12", "01-01-2024", "12-31-2028",
       "01-01-2024", "12-31-2028", "", "01-01-2024">>,
     <<"P1", "E1", "10", "120", "12", "01-01-2024", "12-31-2028",
       "01-01-2024", "12-31-2028", "USD">>}

InvalidTransferArgs ==
    {<<"P1_E1", "E2", "abc", "A_B_1", "A_B_1", "A_B_1", "A_B_1">>,
     <<"P1_E1", "E2", "", "A_B_1", "A_B_1", "A_B_1", "A_B_1">>,
     <<"P1_E1", "", "4", "A_B_1", "A_B_1", "A_B_1", "A_B_1">>,
     <<"P1_E1", "E2", "4", "A_B_1", "A_B_1", "A_B_1">>}

InvalidSettleArgs == {<<"P1_E1">>, <<"P1_E1", "">>}

InvalidPeriodArgs == {<<>>, <<"">>}

InvalidDeleteArgs == {<<>>, <<"">>}

InvalidCreateAccount ==
    \E args \in InvalidAccountArgs : Step("create_account", args)

InvalidCreateLicense ==
    \E args \in InvalidLicenseArgs : Step("create_license", args)

InvalidTransferLicense ==
    \E args \in InvalidTransferArgs : Step("transfer_license", args)

InvalidSettleBill ==
    \E args \in InvalidSettleArgs : Step("settle_bill", args)

InvalidNextPeriod ==
    \E args \in InvalidPeriodArgs : Step("next_period", args)

InvalidDeleteLicense ==
    \E args \in InvalidDeleteArgs : Step("delete_license", args)

NextInvalid ==
    \/ DoCreateAccount
    \/ DoCreateLicense
    \/ InvalidCreateAccount
    \/ InvalidCreateLicense
    \/ InvalidTransferLicense
    \/ InvalidSettleBill
    \/ InvalidNextPeriod
    \/ InvalidDeleteLicense

SpecInvalid == Init /\ [][NextInvalid]_vars

(***************************************************************************)
(* C16: an invocation of create_account, create_license, transfer_license, *)
(* settle_bill, next_period or delete_license with a missing, an empty or  *)
(* a non-numeric argument returns a failure and leaves the world state as  *)
(* it was.                                                                 *)
(***************************************************************************)
\* the number of arguments of an operation
ArgCount(fn) ==
    CASE fn = "create_account" -> 10
      [] fn = "create_license" -> 11
      [] fn = "transfer_license" -> 7
      [] fn = "settle_bill" -> 2
      [] OTHER -> 1

\* the positions of its numeric arguments
NumericArgs(fn) ==
    CASE fn = "create_account" -> {7, 8}
      [] fn = "create_license" -> {3, 4, 5}
      [] fn = "transfer_license" -> {3}
      [] OTHER -> {}

InvalidCall(fn, args) ==
    \/ Len(args) < ArgCount(fn)
    \/ \E i \in 1..Len(args) : args[i] = ""
    \/ \E i \in NumericArgs(fn) : ~ParseFloat(args[i]).ok

C16_Case ==
    /\ last.fn \in {"create_account", "create_license", "transfer_license",
                    "settle_bill", "next_period", "delete_license"}
    /\ InvalidCall(last.fn, last.args)

C16_InvalidArgumentsRejected ==
    C16_Case => last.status = "ERROR" /\ store = last.pre

(***************************************************************************)
(* C17: a transfer_license in which the transfer quantity, or the stored   *)
(* quantity or licensePrice of the record under the source key, is not a   *)
(* number ends without success, before any sub-operation has run and with  *)
(* the world state as it was.                                              *)
(***************************************************************************)
C17_Source ==
    DecodeLicense(IF Has(last.pre, last.args[1]) THEN last.pre[last.args[1]] ELSE Nil)

C17_Case ==
    /\ last.fn = "transfer_license"
    /\ Len(last.args) = 7
    /\ \/ ~ParseFloat(last.args[3]).ok
       \/ ~ParseFloat(C17_Source.Quantity).ok
       \/ ~ParseFloat(C17_Source.LicensePrice).ok

FaultSets == {{}, {AccountIndexStr}, {LicenseIndexStr}, {"P1_E2"}}

FaultAccountArgs == {args \in AccountArgs : args[8] = "0"}

FaultLicenseArgs == {args \in LicenseArgs : args[3] = "10"}

FaultTransferArgs == {args \in TransferArgs : args[3] \in {"4", "10"}}

FaultCreateAccount ==
    \E args \in FaultAccountArgs, bad \in FaultSets :
        StepOn("create_account", args, bad)

FaultCreateLicense ==
    \E args \in FaultLicenseArgs, bad \in FaultSets :
        StepOn("create_license", args, bad)

FaultTransferLicense ==
    \E args \in FaultTransferArgs, bad \in FaultSets :
        StepOn("transfer_license", args, bad)

FaultDeleteLicense ==
    \E args \in DeleteArgs, bad \in FaultSets : StepOn("delete_license", args, bad)

NextFault ==
    \/ FaultCreateAccount
    \/ FaultCreateLicense
    \/ FaultTransferLicense
    \/ FaultDeleteLicense

SpecFault == Init /\ [][NextFault]_vars

(***************************************************************************)
(* C18: a transfer_license one of whose sub-operations (settle_bill,       *)
(* create_license, a posting, delete_license) returned a failure does not  *)
(* return success.                                                         *)
(***************************************************************************)
C18_Case ==
    /\ last.fn = "transfer_license"
    /\ \E i \in 1..(Len(last.log) - 1) : last.log[i].status = "ERROR"

C18_SubStepFailureSurfaces == C18_Case => last.status # "OK"

(***************************************************************************)
(* C19: create_account, create_license and delete_license do not return    *)
(* success when the store rejects the write of the record or of the index. *)
(***************************************************************************)
\* the keys the operation writes
C19_Writes ==
    CASE last.fn = "create_account" /\ Len(last.args) = 10 ->
             {last.args[1] \o "_" \o last.args[2] \o "_" \o last.args[9],
              AccountIndexStr}
      [] last.fn = "create_license" /\ Len(last.args) = 11 ->
             {last.args[1] \o "_" \o last.args[2], LicenseIndexStr}
      [] last.fn = "delete_license" /\ Len(last.args) = 1 ->
             {last.args[1], LicenseIndexStr}
      [] OTHER -> {}

\* the operation got as far as a write that the store rejected
C19_Case ==
    /\ C19_Writes \cap last.bad # {}
    /\ last.msg \notin {"This account arleady exists", "This license arleady exists"}

C19_RejectedWriteSurfaces == C19_Case => last.status # "OK"

(***************************************************************************)
(* A fifth input space: a transfer between two licenses whose license      *)
(* accounts are two different stored accounts.                             *)
(***************************************************************************)
ChargeAccountArgs ==
    {<<"A", "B", "Alpha", "Beta", "USD", "Jan-2024", "1000", "0", no, "AR">> :
        no \in {"1", "2"}}

ChargeTransferArgs ==
    {<<"P1_E1", "E2", q, "A_B_1", "A_B_2", "S_1", "S_2">> : q \in {"4", "10"}}

ChargeCreateAccount ==
    \E args \in ChargeAccountArgs : Step("create_account", args)

ChargeCreateLicense ==
    \E args \in FaultLicenseArgs : Step("create_license", args)

ChargeTransferLicense ==
    \E args \in ChargeTransferArgs : Step("transfer_license", args)

NextCharge ==
    \/ ChargeCreateAccount
    \/ ChargeCreateLicense
    \/ ChargeTransferLicense
    \/ Tick

SpecCharge == Init /\ [][NextCharge]_vars

(***************************************************************************)
(* C20: a successful transfer_license raises the activity of the account   *)
(* at the source license account key by transferQuantity * months *        *)
(* licensePrice / 60, months counted from the license start date to today, *)
(* and lowers the activity of the account at the target license account    *)
(* key by the same amount.                                                 *)
(***************************************************************************)
\* whole months from one MM-DD-YYYY date to another
MonthsBetween(dateA, dateB) ==
    (ParseInt(SubSeq(dateB, 7, 10)).val - ParseInt(SubSeq(dateA, 7, 10)).val) * 12
        + ParseInt(SubSeq(dateB, 1, 2)).val - ParseInt(SubSeq(dateA, 1, 2)).val

C20_Case ==
    /\ Succeeded("transfer_license")
    /\ Len(last.args) = 7
    /\ IsLicenseAt(last.pre, last.args[1])
    /\ IsAccountAt(last.pre, last.args[4])
    /\ IsAccountAt(last.pre, last.args[5])
    /\ last.args[4] # last.args[5]
    /\ {last.args[6], last.args[7]} \cap {last.args[4], last.args[5]} = {}

C20_Charge ==
    (Num(last.args[3])
        * MonthsBetween(last.pre[last.args[1]].LicenseStartDate, last.now)
        * Num(last.pre[last.args[1]].LicensePrice)) \div 60

C20_LicenseChargePosted ==
    C20_Case =>
        /\ IsAccountAt(store, last.args[4])
        /\ IsAccountAt(store, last.args[5])
        /\ Num(store[last.args[4]].Activity) =
              Num(last.pre[last.args[4]].Activity) + C20_Charge
        /\ Num(store[last.args[5]].Activity) =
              Num(last.pre[last.args[5]].Activity) - C20_Charge

(***************************************************************************)
(* Vocabulary of the transfer properties                                   *)
(***************************************************************************)
\* the source license of the last invocation, as it was before it
SourceBefore == last.pre[last.args[1]]

\* the key of the target license
TargetKey == SourceBefore.LicensePartNo \o "_" \o last.args[2]

TransferDone ==
    /\ Succeeded("transfer_license")
    /\ Len(last.args) = 7
    /\ IsLicenseAt(last.pre, last.args[1])
    /\ TargetKey # last.args[1]

\* supportFee * quantity * months / 12 of a license record at a date
SupportChargeOf(license, today) ==
    (Num(license.SupportFee) * Num(license.Quantity)
        * MonthsBetween(license.LastSettlementDate, today)) \div 12

(***************************************************************************)
(* C21: in a successful transfer_license onto an existing target license,  *)
(* the first thing done is the settlement of the target against the target *)
(* support account, with the charge of the target's quantity and last      *)
(* settlement date as they were before the call; afterwards the target's   *)
(* quantity is its previous quantity plus the transfer quantity and its    *)
(* lastSettlementDate is today.                                            *)
(***************************************************************************)
C21_Case == TransferDone /\ IsLicenseAt(last.pre, TargetKey)

C22_Case == TransferDone /\ ~IsLicenseAt(last.pre, TargetKey)

C22_CreateCopiesSource ==
    C22_Case =>
        /\ IsLicenseAt(store, TargetKey)
        /\ Num(store[TargetKey].Quantity) = Num(last.args[3])
        /\ store[TargetKey].LastSettlementDate = last.now
        /\ store[TargetKey].LicensePartNo = SourceBefore.LicensePartNo
        /\ store[TargetKey].BaseEntityCode = last.args[2]
        /\ Num(store[TargetKey].LicensePrice) = Num(SourceBefore.LicensePrice)
        /\ Num(store[TargetKey].SupportFee) = Num(SourceBefore.SupportFee)
        /\ store[TargetKey].LicenseStartDate = SourceBefore.LicenseStartDate
        /\ store[TargetKey].LicenseEndDate = SourceBefore.LicenseEndDate
        /\ store[TargetKey].SupportStartDate = SourceBefore.SupportStartDate
        /\ store[TargetKey].SupportEndDate = SourceBefore.SupportEndDate
        /\ store[TargetKey].Currency = SourceBefore.Currency

\* a target created on a later day than the source's last settlement
C22_Witness ==
    C22_Case /\ SourceBefore.LastSettlementDate # last.now

(***************************************************************************)
(* C23: in a successful transfer_license of less than the source quantity, *)
(* the last sub-operation is the settlement of the source against the      *)
(* source support account, with the charge of the source's quantity before *)
(* the call; afterwards the source's quantity is its previous quantity     *)
(* minus the transfer quantity and its lastSettlementDate is today.        *)
(***************************************************************************)
C23_Case == TransferDone /\ Num(last.args[3]) < Num(SourceBefore.Quantity)

C23_PartialSettlesBeforeChange ==
    C23_Case =>
        /\ Len(last.log) >= 3
        /\ last.log[Len(last.log) - 2].fn = "addActivityToAccount"
        /\ last.log[Len(last.log) - 2].args[1] = last.args[6]
        /\ Num(last.log[Len(last.log) - 2].args[2]) =
              SupportChargeOf(SourceBefore, last.now)
        /\ last.log[Len(last.log) - 1].fn = "settle_bill"
        /\ last.log[Len(last.log) - 1].args = <<last.args[1], last.args[6]>>
        /\ IsLicenseAt(store, last.args[1])
        /\ Num(store[last.args[1]].Quantity) =
              Num(SourceBefore.Quantity) - Num(last.args[3])
        /\ store[last.args[1]].LastSettlementDate = last.now

\* a partial transfer from a source that had a support charge outstanding
C23_Witness ==
    C23_Case /\ SupportChargeOf(SourceBefore, last.now) # 0

(***************************************************************************)
(* C24: delete_license(licenseKey) succeeds, leaves no record at           *)
(* licenseKey, removes the first occurrence of licenseKey from             *)
(* LicenseIndex and keeps the other entries in their order (the whole      *)
(* index when the key is not listed), and changes nothing else.            *)
(***************************************************************************)
\* seq without the first occurrence of key
WithoutFirst(seq, key) ==
    IF key \in Range(seq)
    THEN SubSeq(seq, 1, First(seq, key) - 1)
             \o SubSeq(seq, First(seq, key) + 1, Len(seq))
    ELSE seq

C24_Case == last.fn = "delete_license" /\ Len(last.args) = 1

C24_DeleteRemovesFirstOccurrence ==
    C24_Case =>
        /\ last.status = "OK"
        /\ ~Has(store, last.args[1])
        /\ IndexOf(store, LicenseIndexStr) =
              WithoutFirst(IndexOf(last.pre, LicenseIndexStr), last.args[1])
        /\ DOMAIN store = DOMAIN last.pre \ {last.args[1]}
        /\ \A k \in DOMAIN store \ {LicenseIndexStr} : store[k] = last.pre[k]

\* the deletion of a listed license from an index of two or more keys
C24_Witness ==
    /\ C24_Case
    /\ Len(IndexOf(last.pre, LicenseIndexStr)) >= 2
    /\ last.args[1] \in Range(IndexOf(last.pre, LicenseIndexStr))


\* ---------------------------------------------------------------------------
\* C25  Accounts are never deleted: a key that holds an account record before
\*      an invocation still holds an account record after it, whatever the
\*      operation and its arguments.
C25_Case == last.fn = "delete_license" /\ Len(last.args) = 1 /\ IsAccountAt(last.pre, last.args[1])

C25_AccountsNeverDeleted == \A key \in DOMAIN last.pre : IsAccountAt(last.pre, key) => IsAccountAt(store, key)


\* ---------------------------------------------------------------------------
\* C26  The dispatcher routes each of the names create_account, add_activity,
\*      next_period, create_license, delete_license, transfer_license,
\*      settle_bill and read to the matching operation; an invocation under
\*      any other name fails and leaves the world state unchanged.
DispatchNames == {"create_account", "add_activity", "next_period", "create_license", "delete_license", "transfer_license", "settle_bill", "read"}

OperationOf(name) == IF name = "add_activity" THEN "addActivityToAccount" ELSE name

UnknownReply(name) == "Received unknown invoke function name - '" \o name \o "'"

Routed == /\ last.msg # UnknownReply(last.fn)
          /\ last.log # <<>>
          /\ last.log[Len(last.log)].fn = OperationOf(last.fn)

C26_Case == steps > 0 /\ last.fn = "add_activity" /\ IsAccountAt(last.pre, last.args[1])

C26_DispatcherRoutes ==
    steps > 0 => IF last.fn \in DispatchNames THEN Routed ELSE last.status = "ERROR" /\ store = last.pre

\* the same statement for the names the dispatcher does know
C26_KnownNamesRouted ==
    steps > 0 /\ last.fn \in DispatchNames \ {"add_activity"} => Routed


\* ---------------------------------------------------------------------------
\* C27  settle_bill(licenseKey, accountKey) on an existing license and
\*      account raises the account's activity by
\*      supportFee * quantity * month_diff(lastSettlementDate, today) / 12,
\*      sets the license's lastSettlementDate to today and leaves every other
\*      field of the license unchanged.
C27_Case ==
    /\ Succeeded("settle_bill")
    /\ Len(last.args) = 2
    /\ IsLicenseAt(last.pre, last.args[1])
    /\ IsAccountAt(last.pre, last.args[2])

C27_LicenseSettled ==
    C27_Case =>
        /\ IsLicenseAt(store, last.args[1])
        /\ store[last.args[1]] = [last.pre[last.args[1]] EXCEPT !.LastSettlementDate = last.now]

C27_SettleBillCharges ==
    C27_Case =>
        /\ IsAccountAt(store, last.args[2])
        /\ Num(store[last.args[2]].Activity) = Num(last.pre[last.args[2]].Activity) + SupportChargeOf(last.pre[last.args[1]], last.now)
        /\ C27_LicenseSettled


(***************************************************************************)
(* SpecMonthDiff: monthDiff as a function of its two arguments. The        *)
(* initial states draw two dates in MM-DD-YYYY form; the one action calls  *)
(* monthDiff on them and records what it returned.                         *)
(***************************************************************************)
DateMonths == {1, 3, 12}

DateDays == {1, 15}

DateYears == {2023, 2024}

MakeDate(month, day, year) == Pad2(month) \o "-" \o Pad2(day) \o "-" \o FormatInt(year)

Dates == {MakeDate(m, d, y) : m \in DateMonths, d \in DateDays, y \in DateYears}

InitMonthDiff ==
    /\ store = Commit(Deployed.stub)
    /\ ownWrites = FALSE
    /\ clock = 0
    /\ \E dateA \in Dates, dateB \in Dates :
           last = [fn |-> "", args |-> <<dateA, dateB>>, status |-> "", msg |-> "",
                   pre |-> EmptyMap, now |-> Today(0), log |-> <<>>, bad |-> {}, res |-> 0]
    /\ prevSettle = <<>>
    /\ run = NoRun
    /\ steps = 0

CallMonthDiff ==
    /\ last.fn = ""
    /\ \E r \in {monthDiff(last.args[1], last.args[2])} :
           last' = [last EXCEPT !.fn = "monthDiff",
                                !.status = IF r.panic THEN "PANIC" ELSE "OK",
                                !.res = r.res]
    /\ steps' = steps + 1
    /\ UNCHANGED <<store, ownWrites, clock, prevSettle, run>>

NextMonthDiff == CallMonthDiff

SpecMonthDiff == InitMonthDiff /\ [][NextMonthDiff]_vars

\* ---------------------------------------------------------------------------
\* C28  For dates dateA, dateB in MM-DD-YYYY form, month_diff(dateA, dateB)
\*      returns (yearB - yearA) * 12 + (monthB - monthA), whatever the days,
\*      and the result is negative when dateB is in an earlier month than
\*      dateA.
MonthOf(date) == CHOOSE m \in 1..12 : Pad2(m) = SubSeq(date, 1, 2)

DayOf(date) == CHOOSE d \in 1..31 : Pad2(d) = SubSeq(date, 4, 5)

YearOf(date) == CHOOSE y \in DateYears : FormatInt(y) = SubSeq(date, 7, 10)

C28_Case == last.fn = "monthDiff" /\ last.args[1] \in Dates /\ last.args[2] \in Dates

C28_MonthDiff ==
    C28_Case =>
        /\ last.status = "OK"
        /\ last.res = (YearOf(last.args[2]) - YearOf(last.args[1])) * 12 + (MonthOf(last.args[2]) - MonthOf(last.args[1]))
        /\ last.args = <<"01-01-2024", "03-01-2024">> => last.res = 2
        /\ last.args = <<"12-01-2023", "01-01-2024">> => last.res = 1

\* dateB in an earlier month than dateA, on a different day of the month
C28_Witness ==
    /\ C28_Case
    /\ last.res < 0
    /\ DayOf(last.args[1]) # DayOf(last.args[2])


(***************************************************************************)
(* SpecKeys: create_account on entity codes and account numbers that       *)
(* contain the separator of the account key.                               *)
(***************************************************************************)
KeyTriples == {<<"A_B", "C", "1">>, <<"A", "B_C", "1">>, <<"A", "B", "C_1">>, <<"A", "B", "1">>}

KeyAccountArgs ==
    {<<t[1], t[2], "Alpha", "Beta", "USD", "Jan-2024", "1000", "0", t[3], "AR">> : t \in KeyTriples}

KeyCreateAccount == \E args \in KeyAccountArgs : Step("create_account", args)

KeyRead == \E key \in {"A_B_C_1", "A_B_1"} : Step("read", <<key>>)

NextKeys ==
    \/ KeyCreateAccount
    \/ KeyRead

SpecKeys == Init /\ [][NextKeys]_vars

\* ---------------------------------------------------------------------------
\* C29  The account key derivation is injective: a create_account call for a
\*      triple (dueToEntityCode, dueFromEntityCode, accountNo) never meets,
\*      under its key, an account that was created for a different triple, so
\*      it is neither rejected nor overwrites a record because of one.
TripleOfArgs(args) == <<args[1], args[2], args[9]>>

TripleOfAccount(account) == <<account.DueToEntityCode, account.DueFromEntityCode, account.AccountNo>>

C29_Key == last.args[1] \o "_" \o last.args[2] \o "_" \o last.args[9]

C29_Case == last.fn = "create_account" /\ Len(last.args) = 10 /\ IsAccountAt(last.pre, C29_Key)

C29_KeyDerivationInjective ==
    C29_Case => TripleOfAccount(last.pre[C29_Key]) = TripleOfArgs(last.args)


(***************************************************************************)
(* SpecConcurrent: two invocations simulated against the same committed    *)
(* state and committed one after the other by the host. The chaincode's    *)
(* side is the set of keys an invocation reads through the stub and the    *)
(* set it writes; the host's side is the validation at commit time, which  *)
(* rejects an invocation that read a key written by an invocation          *)
(* committed after the state it was simulated on.                          *)
(***************************************************************************)
\* the index read of create_license taken from outside the stub
DirectReads_NoIndexRead(base, fn, args, status) ==
    IF fn = "read" /\ Len(args) = 1 THEN {args[1]}
    ELSE IF fn = "create_account" /\ Len(args) = 10 /\ ParseFloat(args[7]).ok /\ ParseFloat(args[8]).ok
    THEN {args[1] \o "_" \o args[2] \o "_" \o args[9]} \cup (IF status = "OK" THEN {AccountIndexStr} ELSE {})
    ELSE IF fn = "create_license" /\ Len(args) = 11 /\ ParseFloat(args[3]).ok /\ ParseFloat(args[4]).ok /\ ParseFloat(args[5]).ok
    THEN {args[1] \o "_" \o args[2]}
    ELSE IF fn = "transfer_license" /\ Len(args) = 7
    THEN {args[1]} \cup (IF status = "OK" THEN {DecodeLicense(IF args[1] \in DOMAIN base THEN base[args[1]] ELSE Nil).LicensePartNo \o "_" \o args[2]} ELSE {})
    ELSE IF fn = "addActivityToAccount" /\ Len(args) >= 2 THEN {args[1]}
    ELSE IF fn = "settle_bill" /\ Len(args) >= 2 THEN {args[1]}
    ELSE IF fn = "next_period" /\ Len(args) = 1 THEN {args[1]}
    ELSE IF fn = "delete_license" /\ Len(args) = 1 THEN {LicenseIndexStr}
    ELSE {}

\* the keys that one call of an operation passes to stub.GetState itself,
\* the calls made by the operations it calls not included
DirectReads(base, fn, args, status) ==
    IF fn = "read" /\ Len(args) = 1 THEN {args[1]}
    ELSE IF fn = "create_account" /\ Len(args) = 10 /\ ParseFloat(args[7]).ok /\ ParseFloat(args[8]).ok
    THEN {args[1] \o "_" \o args[2] \o "_" \o args[9]} \cup (IF status = "OK" THEN {AccountIndexStr} ELSE {})
    ELSE IF fn = "create_license" /\ Len(args) = 11 /\ ParseFloat(args[3]).ok /\ ParseFloat(args[4]).ok /\ ParseFloat(args[5]).ok
    THEN {args[1] \o "_" \o args[2]} \cup (IF status = "OK" THEN {LicenseIndexStr} ELSE {})
    ELSE IF fn = "transfer_license" /\ Len(args) = 7
    THEN {args[1]} \cup (IF status = "OK" THEN {DecodeLicense(IF args[1] \in DOMAIN base THEN base[args[1]] ELSE Nil).LicensePartNo \o "_" \o args[2]} ELSE {})
    ELSE IF fn = "addActivityToAccount" /\ Len(args) >= 2 THEN {args[1]}
    ELSE IF fn = "settle_bill" /\ Len(args) >= 2 THEN {args[1]}
    ELSE IF fn = "next_period" /\ Len(args) = 1 THEN {args[1]}
    ELSE IF fn = "delete_license" /\ Len(args) = 1 THEN {LicenseIndexStr}
    ELSE {}

\* the keys an invocation has read through the stub when it returns
ReadSet(stub) ==
    UNION {DirectReads(stub.base, stub.log[i].fn, stub.log[i].args, stub.log[i].status) : i \in DOMAIN stub.log}

\* the keys an invocation has written or deleted through the stub
WriteSet(stub) == DOMAIN stub.ws

\* the host's validation at commit time: none of the keys the invocation
\* read has been written since the state it was simulated on
Validated(readSet, writtenSince) == readSet \cap writtenSince = {}

\* the host applies the write set of a validated invocation to the state
ApplyWrites(state, stub) == Commit([stub EXCEPT !.base = state])

\* the number of pairs of concurrent invocations in one behaviour
MaxPairs == 2

ConcurrentLicenseArgs ==
    {<<"P1", e, "10", "120", "12", "01-01-2024", "12-31-2028", "01-01-2024", "12-31-2028", "USD", "01-01-2024">> : e \in {"E2", "E3"}}

ConcurrentCalls ==
    {[fn |-> "create_license", args |-> a] : a \in ConcurrentLicenseArgs}
        \cup {[fn |-> "settle_bill", args |-> <<k, "A_B_1">>] : k \in {"P1_E1", "P1_E2"}}
        \cup {[fn |-> "delete_license", args |-> <<"P1_E1">>]}
        \cup {[fn |-> "transfer_license", args |-> <<"P1_E1", "E2", "4", "A_B_1", "A_B_1", "A_B_1", "A_B_1">>]}

Simulate(call) == Invoke(NewStub(store, ownWrites, {}, Today(clock)), call.fn, call.args)

\* both invocations are simulated on the committed state; the host commits
\* the first if it succeeded, and the second if it succeeded and passes the
\* validation
CommitPair(first, second, r1, r2) ==
    With(r1.status = "OK", LAMBDA valid1 :
    With(r2.status = "OK" /\ (valid1 => Validated(ReadSet(r2.stub), WriteSet(r1.stub))), LAMBDA valid2 :
    With(IF valid1 THEN Commit(r1.stub) ELSE store, LAMBDA afterFirst :
        /\ store' = IF valid2 THEN ApplyWrites(afterFirst, r2.stub) ELSE afterFirst
        /\ last' = [fn |-> "concurrent", args |-> <<first, second>>,
                    status |-> "OK", msg |-> "", pre |-> store, now |-> Today(clock),
                    log |-> <<>>, bad |-> {},
                    simulated |-> <<r1.status, r2.status>>,
                    valid |-> <<valid1, valid2>>,
                    writes |-> <<WriteSet(r1.stub), WriteSet(r2.stub)>>])))

ConcurrentPair ==
    /\ steps < MaxPairs
    /\ \E first \in ConcurrentCalls, second \in ConcurrentCalls :
           CommitPair(first, second, Simulate(first), Simulate(second))
    /\ steps' = steps + 1
    /\ UNCHANGED <<ownWrites, clock, prevSettle, run>>

NextConcurrent ==
    \/ ConcurrentPair
    \/ Tick

\* the invocations of calls run one after the other, each on the state the
\* one before it committed, as long as they succeed
RECURSIVE SerialRun(_, _, _, _)
SerialRun(state, calls, mode, now) ==
    IF calls = <<>> THEN [ok |-> TRUE, state |-> state]
    ELSE With(Invoke(NewStub(state, mode, {}, now), calls[1].fn, calls[1].args), LAMBDA r :
             IF r.status = "OK" THEN SerialRun(Commit(r.stub), Tail(calls), mode, now)
             ELSE [ok |-> FALSE, state |-> state])

\* the deployed chaincode after the creation of an account and of a license,
\* on a host whose reads return the committed state
ConcurrentSetup ==
    <<[fn |-> "create_account", args |-> <<"A", "B", "Alpha", "Beta", "USD", "Jan-2024", "1000", "0", "1", "AR">>],
      [fn |-> "create_license", args |-> <<"P1", "E1", "10", "120", "12", "01-01-2024", "12-31-2028", "01-01-2024", "12-31-2028", "USD", "01-01-2024">>]>>

InitConcurrent ==
    /\ store = SerialRun(Commit(Deployed.stub), ConcurrentSetup, FALSE, Today(0)).state
    /\ ownWrites = FALSE
    /\ clock = 0
    /\ last = [fn |-> "create_license", args |-> ConcurrentSetup[2].args, status |-> "OK",
               msg |-> "", pre |-> EmptyMap, now |-> Today(0), log |-> <<>>, bad |-> {}]
    /\ prevSettle = <<>>
    /\ run = NoRun
    /\ steps = 0

SpecConcurrent == InitConcurrent /\ [][NextConcurrent]_vars

\* ---------------------------------------------------------------------------
\* C30  When two invocations are submitted concurrently against the same
\*      committed state, the committed state equals the state reached by
\*      running the invocations that committed one after the other, each to
\*      success, in some order: no committed append or posting is lost.
Committed == SelectSeq(<<1, 2>>, LAMBDA i : last.valid[i])

SerialOrders ==
    IF Len(Committed) = 2 THEN {<<last.args[1], last.args[2]>>, <<last.args[2], last.args[1]>>}
    ELSE {[i \in 1..Len(Committed) |-> last.args[Committed[i]]]}

C30_Case == last.fn = "concurrent"

C30_CommittedResultIsSerial ==
    C30_Case =>
        \E order \in SerialOrders :
            SerialRun(last.pre, order, ownWrites, last.now) = [ok |-> TRUE, state |-> store]

\* two different invocations that both succeeded on the same state and wrote
\* a common key: the first committed, the second did not pass the validation
C30_Witness ==
    /\ C30_Case
    /\ last.simulated = <<"OK", "OK">>
    /\ last.args[1] # last.args[2]
    /\ last.writes[1] \cap last.writes[2] # {}
    /\ last.valid = <<TRUE, FALSE>>


(***************************************************************************)
(* SpecLoops: next_period and delete_license one store call and one loop   *)
(* pass at a time. The frame of the running operation is kept in last: its *)
(* position pc, the stub, the loop index i, the local variables, and the   *)
(* numbers of store calls and of loop passes made so far.                  *)
(***************************************************************************)
\* the longest license index of the initial states
MaxIndexLen == 3

LoopKeys == {"P1_E1", "P1_E2"}

LoopIndexes == UNION {[1..n -> LoopKeys] : n \in 0..MaxIndexLen}

LoopPeriods == {"Jan-2024", "Dec-2024", "Foo-2024", "Ja"}

LoopAccount(period) ==
    [kind |-> "account", AccountKey |-> "A_B_1", DueToEntityCode |-> "A", DueFromEntityCode |-> "B", DueToEntityName |-> "Alpha", DueFromEntityName |-> "Beta", Currency |-> "USD", Period |-> period, OpeningBalance |-> "1E+03", Activity |-> "0E+00", PeriodToDateBalance |-> "1E+03", AccountNo |-> "1", AccountName |-> "AR"]

\* world states: a license index as the operations leave it, and an account
\* with the period it was created with
LoopStores ==
    {MapPut(MapPut(Commit(Deployed.stub), LicenseIndexStr, IndexValue(list)), "A_B_1", LoopAccount(period)) : list \in LoopIndexes, period \in {"Jan-2024"}}
        \cup {MapPut(Commit(Deployed.stub), "A_B_1", LoopAccount(period)) : period \in LoopPeriods}
        \cup {Commit(Deployed.stub)}

LoopCalls ==
    {[fn |-> "delete_license", args |-> a] : a \in {<<k>> : k \in LoopKeys \cup {"P1_E3"}} \cup {<<>>}}
        \cup {[fn |-> "next_period", args |-> a] : a \in {<<>>, <<"A_B_1">>, <<"A_B_1", "A_B_1">>}}

Frame(call, state) ==
    [fn |-> call.fn, args |-> call.args, status |-> "", msg |-> "", pre |-> state,
     now |-> Today(0), log |-> <<>>, bad |-> {}, pc |-> "start",
     stub |-> NewStub(state, FALSE, {}, Today(0)), i |-> 0, list |-> <<>>,
     account |-> EmptyAccount, new |-> [month |-> "", year |-> ""], calls |-> 0, passes |-> 0]

InitLoops ==
    /\ store \in LoopStores
    /\ ownWrites = FALSE
    /\ clock = 0
    /\ \E call \in LoopCalls : last = Frame(call, store)
    /\ prevSettle = <<>>
    /\ run = NoRun
    /\ steps = 0

\* the loop index stays where it is
LoopAdvance_Stay(i) == i

\* i++ of the for statement, and the next element of the range statement
LoopAdvance(i) == i + 1

\* the operation returns: the host commits the write set of a success
LoopReturn(frame, status, msg) ==
    /\ last' = [frame EXCEPT !.pc = "done", !.status = status, !.msg = msg]
    /\ store' = IF status = "OK" THEN Commit(frame.stub) ELSE store

LoopFrame == UNCHANGED <<ownWrites, clock, prevSettle, run, steps>>

\* delete_license, lines 578-586: the argument check and DelState
DeleteDel ==
    /\ last.fn = "delete_license" /\ last.pc = "start"
    /\ IF Len(last.args) # 1
       THEN LoopReturn(last, "ERROR", "Incorrect number of arguments. Expecting 1")
       ELSE /\ last' = [last EXCEPT !.pc = "get", !.calls = @ + 1,
                                    !.stub = DelState(last.stub, last.args[1]).stub]
            /\ UNCHANGED store
    /\ LoopFrame

\* lines 589-594: the index is read and decoded
DeleteGet ==
    /\ last.fn = "delete_license" /\ last.pc = "get"
    /\ last' = [last EXCEPT !.pc = "loop", !.calls = @ + 1, !.i = 1,
                            !.list = DecodeIndex(GetState(last.stub, LicenseIndexStr))]
    /\ UNCHANGED store
    /\ LoopFrame

\* lines 597-602: one element of the range over the index
DeleteLoop ==
    /\ last.fn = "delete_license" /\ last.pc = "loop"
    /\ last' = IF last.i > Len(last.list) THEN [last EXCEPT !.pc = "put"]
               ELSE IF last.list[last.i] = last.args[1]
               THEN [last EXCEPT !.pc = "put", !.passes = @ + 1,
                                 !.list = SubSeq(@, 1, last.i - 1) \o SubSeq(@, last.i + 1, Len(@))]
               ELSE [last EXCEPT !.i = LoopAdvance(@), !.passes = @ + 1]
    /\ UNCHANGED store
    /\ LoopFrame

\* lines 603-605: the index is written back
DeletePut ==
    /\ last.fn = "delete_license" /\ last.pc = "put"
    /\ LoopReturn([last EXCEPT !.calls = @ + 1,
                               !.stub = PutState(last.stub, LicenseIndexStr, IndexValue(last.list)).stub],
                  "OK", "")
    /\ LoopFrame

\* next_period, lines 525-537: the argument check, GetState and the slices
PeriodGet ==
    /\ last.fn = "next_period" /\ last.pc = "start"
    /\ IF Len(last.args) < 1
       THEN LoopReturn(last, "ERROR", "Incorrect number of arguments. Expecting 1")
       ELSE With([last EXCEPT !.calls = @ + 1, !.account = DecodeAccount(GetState(last.stub, last.args[1]))], LAMBDA frame :
                IF Len(frame.account.Period) < 6 THEN LoopReturn(frame, "PANIC", "runtime error")
                ELSE /\ last' = [frame EXCEPT !.pc = "loop", !.i = 1]
                     /\ UNCHANGED store)
    /\ LoopFrame

\* lines 541-553: one month name of the for statement
PeriodLoop ==
    /\ last.fn = "next_period" /\ last.pc = "loop"
    /\ last' = IF last.i > Len(months) THEN [last EXCEPT !.pc = "put"]
               ELSE IF SubSeq(last.account.Period, 1, 3) = months[last.i]
               THEN [last EXCEPT !.i = LoopAdvance(@), !.passes = @ + 1,
                                 !.new = IF last.i < Len(months)
                                         THEN [month |-> months[last.i + 1], year |-> FormatInt(ParseInt(SubSeq(last.account.Period, 5, 6)).val)]
                                         ELSE [month |-> "Jan", year |-> FormatInt(ParseInt(SubSeq(last.account.Period, 5, 6)).val + 1)]]
               ELSE [last EXCEPT !.i = LoopAdvance(@), !.passes = @ + 1]
    /\ UNCHANGED store
    /\ LoopFrame

\* lines 555-567: the new record is written under args[1]
PeriodPut ==
    /\ last.fn = "next_period" /\ last.pc = "put"
    /\ IF Len(last.args) < 2 THEN LoopReturn(last, "PANIC", "runtime error")
       ELSE LoopReturn([last EXCEPT !.calls = @ + 1,
                                    !.stub = PutState(last.stub, last.args[2],
                                                 [last.account EXCEPT
                                                     !.Period = last.new.month \o "-" \o last.new.year,
                                                     !.OpeningBalance = last.account.PeriodToDateBalance,
                                                     !.Activity = FormatFloat(FZero)]).stub],
                       "OK", "")
    /\ LoopFrame

NextLoops ==
    \/ DeleteDel
    \/ DeleteGet
    \/ DeleteLoop
    \/ DeletePut
    \/ PeriodGet
    \/ PeriodLoop
    \/ PeriodPut

\* an operation that has been invoked runs on until it returns
SpecLoops == InitLoops /\ [][NextLoops]_vars /\ WF_vars(NextLoops)

\* the result of the operation run as one step
LoopWhole == Invoke(NewStub(last.pre, FALSE, {}, last.now), last.fn, last.args)

\* run to its end pass by pass, an operation returns and commits what it
\* returns and commits as one step
LoopsAgree ==
    last.pc = "done" =>
        /\ last.status = LoopWhole.status
        /\ store = IF LoopWhole.status = "OK" THEN Commit(LoopWhole.stub) ELSE last.pre

\* ---------------------------------------------------------------------------
\* C31  next_period and delete_license terminate after a bounded number of
\*      store calls, for every input and world state: next_period makes at
\*      most one pass over the twelve month names, delete_license at most
\*      one pass over the index, neither more than three store calls, and
\*      each reaches its return.
C31_Bounded ==
    /\ last.calls <= 3
    /\ last.fn = "next_period" => last.passes <= Len(months)
    /\ last.fn = "delete_license" => last.passes <= Len(IndexOf(last.pre, LicenseIndexStr))

C31_BoundedTermination == [](C31_Bounded) /\ <>(last.pc = "done")

\* delete_license returned after a pass over a whole index of the greatest
\* length that did not list its key
C31_Witness ==
    /\ last.pc = "done"
    /\ last.fn = "delete_license"
    /\ last.passes = MaxIndexLen
    /\ last.list = IndexOf(last.pre, LicenseIndexStr)


(***************************************************************************)
(* SpecSelf: transfer_license with the source license's own entity as      *)
(* target entity, so that the target key is the source key.                *)
(***************************************************************************)
SelfTransferArgs ==
    {<<"P1_E1", e, q, "A_B_1", "A_B_1", "A_B_1", "A_B_1">> : e \in {"E1", "E2"}, q \in {"4", "10"}}

SelfTransferLicense == \E args \in SelfTransferArgs : Step("transfer_license", args)

NextSelf ==
    \/ FaultCreateAccount
    \/ ChargeCreateLicense
    \/ SelfTransferLicense
    \/ Tick

SpecSelf == Init /\ [][NextSelf]_vars

\* ---------------------------------------------------------------------------
\* C32  A successful transfer_license conserves quantity: the quantities of
\*      the stored licenses with the source's part number sum to the same
\*      before and after the call, also when the target key is the source
\*      key.
RECURSIVE SumQuantity(_, _)
SumQuantity(st, keys) ==
    IF keys = {} THEN 0
    ELSE With(CHOOSE k \in keys : TRUE, LAMBDA k : Num(st[k].Quantity) + SumQuantity(st, keys \ {k}))

PartQuantity(st, partNo) ==
    SumQuantity(st, {k \in LicenseRecords(st) : st[k].LicensePartNo = partNo})

C32_Case == Succeeded("transfer_license") /\ Len(last.args) = 7 /\ IsLicenseAt(last.pre, last.args[1])

C32_TransferConservesQuantity ==
    C32_Case => PartQuantity(store, SourceBefore.LicensePartNo) = PartQuantity(last.pre, SourceBefore.LicensePartNo)

\* the same statement for the transfers to another key than the source's
C32_ConservedBetweenKeys ==
    C32_Case /\ TargetKey # last.args[1] =>
        PartQuantity(store, SourceBefore.LicensePartNo) = PartQuantity(last.pre, SourceBefore.LicensePartNo)


\* ---------------------------------------------------------------------------
\* C33  A posting to accountKey and next_period(accountKey) write to no key
\*      other than accountKey: every other key, the key equal to the amount
\*      string included, holds after the call what it held before (the
\*      posting observed on the one that settle_bill makes, which also
\*      writes the license).
SameAt(key) == (Has(store, key) <=> Has(last.pre, key)) /\ (Has(store, key) => store[key] = last.pre[key])

C33_Posting == Succeeded("settle_bill") /\ Len(last.args) = 2 /\ Len(Postings) = 1

C33_Period == Succeeded("next_period")

C33_Case == C33_Posting /\ Postings[1].status = "OK" /\ Postings[1].args[2] \notin {last.args[1], last.args[2]}

C33_WritesAccountKeyOnly ==
    /\ C33_Posting => \A key \in (DOMAIN store \cup DOMAIN last.pre) \ {last.args[1], last.args[2]} : SameAt(key)
    /\ C33_Period => \A key \in (DOMAIN store \cup DOMAIN last.pre) \ {last.args[1]} : SameAt(key)

\* next_period alone
C33_PeriodWritesAccountKeyOnly ==
    C33_Period => \A key \in (DOMAIN store \cup DOMAIN last.pre) \ {last.args[1]} : SameAt(key)


\* ---------------------------------------------------------------------------
\* C34  After a successful full transfer_license that takes the create
\*      branch, the committed LicenseIndex lists the target license key and
\*      not the source key, also on a host whose reads inside an invocation
\*      return the value committed before it.
C34_Case ==
    /\ TransferDone
    /\ ~IsLicenseAt(last.pre, TargetKey)
    /\ Num(last.args[3]) = Num(SourceBefore.Quantity)

C34_IndexAfterFullTransfer ==
    C34_Case =>
        /\ TargetKey \in Range(IndexOf(store, LicenseIndexStr))
        /\ last.args[1] \notin Range(IndexOf(store, LicenseIndexStr))

\* the same statement on a host whose reads return the invocation's own
\* earlier writes
C34_IndexAfterFullTransferOwnWrites == ownWrites => C34_IndexAfterFullTransfer


\* ---------------------------------------------------------------------------
\* C35  Every charge posted during one transfer_license invocation is
\*      reflected in the committed activity of its account: an account named
\*      by more than one of the four account arguments changes by the sum of
\*      all the charges posted to it.
RECURSIVE PostedTo(_, _)
PostedTo(postings, key) ==
    IF postings = <<>> THEN 0
    ELSE (IF postings[1].args[1] = key THEN Num(postings[1].args[2]) ELSE 0) + PostedTo(Tail(postings), key)

C35_Accounts == {last.args[i] : i \in 4..7}

C35_Case == TransferDone /\ \A key \in C35_Accounts : IsAccountAt(last.pre, key)

C35_AllChargesReflected ==
    C35_Case =>
        \A key \in C35_Accounts :
            /\ IsAccountAt(store, key)
            /\ Num(store[key].Activity) = Num(last.pre[key].Activity) + PostedTo(Postings, key)


\* ---------------------------------------------------------------------------
\* C36  settle_bill and transfer_license are deterministic functions of
\*      their arguments and the world state: two executions of the same
\*      invocation on the same world state write the same, whatever the
\*      wall-clock dates at which they run.
ExecutedAt(c) == Invoke(NewStub(last.pre, ownWrites, {}, Today(c)), last.fn, last.args)

C36_Case == last.fn \in {"settle_bill", "transfer_license"} /\ last.status = "OK" /\ IsLicenseAt(last.pre, last.args[1])

C36_WritesIndependentOfClock ==
    C36_Case =>
        \A c, d \in 0..MaxTicks :
            /\ ExecutedAt(c).status = ExecutedAt(d).status
            /\ ExecutedAt(c).stub.ws = ExecutedAt(d).stub.ws


(***************************************************************************)
(* The invoice-trading chaincode. Its world state holds the invoices under *)
(* their ids and the list of the ids under "invoiceIDs"; the caller of an  *)
(* invocation is the username and role of its certificate. The arguments   *)
(* are strings without quotes or backslashes, for which json.Unmarshal of  *)
(* the text that create_invoice builds returns the fields it was built of. *)
(***************************************************************************)
SELLER == "seller"

FINANCIER == "financier"

\* the zero value Invoice{}
EmptyInvoice ==
    [kind |-> "invoice", InvoiceId |-> "", Amount |-> "", Currency |-> "", Seller |-> "", Buyer |-> "", DueDate |-> "", Status |-> "", Financier |-> "", Discount |-> ""]

InvoiceInit(stub) ==
    With(PutState(stub, "invoiceIDs", [kind |-> "holder", list |-> <<>>]), LAMBDA p :
        IF p.err THEN Error(p.stub, "init", <<>>, "Error putting state with invoiceIDs")
        ELSE Success(p.stub, "init", <<>>))

\* the error of GetState or Unmarshal is dropped by every caller, which goes
\* on with the invoice returned: the zero value unless an invoice is stored
retrieve_invoice(stub, invoiceId) ==
    With(GetState(stub, invoiceId), LAMBDA v : IF v.kind = "invoice" THEN v ELSE EmptyInvoice)

save_changes(stub, inv) == PutState(stub, inv.InvoiceId, inv)

(***************************************************************************)
(* encoding/json as create_invoice uses it: the document is read character *)
(* by character as one object whose members are string literals, spaces    *)
(* between them skipped.  Of the escapes only \", \\ and \/ are decoded, and  *)
(* a member value that is not a string literal is refused; a member named  *)
(* twice keeps its last value, as Unmarshal does.                          *)
(***************************************************************************)
RECURSIVE JsonString(_, _, _)
\* the literal whose opening quote stands before position i
JsonString(s, i, acc) ==
    IF i > Len(s) THEN [ok |-> FALSE, value |-> acc, next |-> i]
    ELSE IF SubSeq(s, i, i) = "\"" THEN [ok |-> TRUE, value |-> acc, next |-> i + 1]
    ELSE IF SubSeq(s, i, i) = "\\"
    THEN IF i < Len(s) /\ SubSeq(s, i + 1, i + 1) \in {"\"", "\\", "/"}
         THEN JsonString(s, i + 2, acc \o SubSeq(s, i + 1, i + 1))
         ELSE [ok |-> FALSE, value |-> acc, next |-> i]
    ELSE JsonString(s, i + 1, acc \o SubSeq(s, i, i))

At(s, i) == IF i <= Len(s) THEN SubSeq(s, i, i) ELSE ""

\* the first position from i on that holds no space
SkipSpace(s, i) ==
    CHOOSE j \in i..(Len(s) + 1) : At(s, j) # " " /\ \A k \in i..(j - 1) : At(s, k) = " "

JsonLiteral(s, i) ==
    With(SkipSpace(s, i), LAMBDA j :
        IF At(s, j) = "\"" THEN JsonString(s, j + 1, "") ELSE [ok |-> FALSE, value |-> "", next |-> j])

JsonInvalid == [ok |-> FALSE, members |-> <<>>]

RECURSIVE JsonMembers(_, _, _)
\* the members written from position i on, up to the closing brace that ends
\* the document
JsonMembers(s, i, members) ==
    With(JsonLiteral(s, i), LAMBDA name :
        IF ~name.ok THEN JsonInvalid
        ELSE
        With(SkipSpace(s, name.next), LAMBDA colon :
            IF At(s, colon) # ":" THEN JsonInvalid
            ELSE
            With(JsonLiteral(s, colon + 1), LAMBDA value :
                IF ~value.ok THEN JsonInvalid
                ELSE
                With(SkipSpace(s, value.next), LAMBDA sep :
                    IF At(s, sep) = "," THEN JsonMembers(s, sep + 1, Append(members, <<name.value, value.value>>))
                    ELSE IF At(s, sep) = "}" /\ SkipSpace(s, sep + 1) > Len(s)
                    THEN [ok |-> TRUE, members |-> Append(members, <<name.value, value.value>>)]
                    ELSE JsonInvalid))))

\* the members of the object a document spells, in the order written
JsonObject(s) ==
    With(SkipSpace(s, 1), LAMBDA open :
        IF At(s, open) # "{" THEN JsonInvalid
        ELSE
        With(SkipSpace(s, open + 1), LAMBDA first :
            IF At(s, first) = "}"
            THEN IF SkipSpace(s, first + 1) > Len(s) THEN [ok |-> TRUE, members |-> <<>>] ELSE JsonInvalid
            ELSE JsonMembers(s, open + 1, <<>>)))

JsonMember(members, name) ==
    IF \E k \in 1..Len(members) : members[k][1] = name
    THEN members[CHOOSE k \in 1..Len(members) : members[k][1] = name /\ \A j \in (k + 1)..Len(members) : members[j][1] # name][2]
    ELSE ""

\* json.Unmarshal into an Invoice
UnmarshalInvoice(s) ==
    With(JsonObject(s), LAMBDA o :
        [err |-> ~o.ok,
         inv |-> IF o.ok
                 THEN [kind |-> "invoice", InvoiceId |-> JsonMember(o.members, "invoiceid"), Amount |-> JsonMember(o.members, "amount"),
                       Currency |-> JsonMember(o.members, "currency"), Seller |-> JsonMember(o.members, "seller"),
                       Buyer |-> JsonMember(o.members, "buyer"), DueDate |-> JsonMember(o.members, "duedate"),
                       Status |-> JsonMember(o.members, "status"), Financier |-> JsonMember(o.members, "financier"),
                       Discount |-> JsonMember(o.members, "discount")]
                 ELSE EmptyInvoice])

invoice_json(invoiceId, username, args) ==
    "{ \"invoiceid\": \"" \o invoiceId \o "\", \"amount\": \"" \o Arg(args, 1) \o "\", \"currency\": \"USD\", \"seller\": \"" \o username \o "\", \"buyer\": \"" \o Arg(args, 3) \o "\", \"duedate\": \"UNDEFINED\", \"status\": \"0\", \"financier\":\"UNDEFINED\", \"discount\":\"" \o Arg(args, 2) \o "\"}"

\* the record is stored under the id read back from the document, and the
\* id appended to the holder is the argument
create_invoice(stub, caller, args) ==
    IF Len(args) < 4 THEN Panic(stub, "create_invoice", args)
    ELSE
    With(UnmarshalInvoice(invoice_json(Arg(args, 0), caller.username, args)), LAMBDA u :
        IF u.err THEN Error(stub, "create_invoice", args, "Invalid JSON object")
        ELSE IF GetState(stub, u.inv.InvoiceId) # Nil
        THEN Error(stub, "create_invoice", args, "Invoice already exists")
        ELSE IF caller.role # SELLER
        THEN Error(stub, "create_invoice", args, "Permission Denied. create_invoice. " \o caller.role \o " !== " \o SELLER)
        ELSE
        With(save_changes(stub, u.inv), LAMBDA s :
            IF s.err THEN Error(s.stub, "create_invoice", args, "Error saving changes")
            ELSE
            With(GetState(s.stub, "invoiceIDs"), LAMBDA bytes :
                IF bytes = Nil THEN Error(s.stub, "create_invoice", args, "Corrupt Invoice_Holder record")
                ELSE
                With(Append(IF bytes.kind = "holder" THEN bytes.list ELSE <<>>, Arg(args, 0)), LAMBDA invoices :
                With(PutState(s.stub, "invoiceIDs", [kind |-> "holder", list |-> invoices]), LAMBDA p :
                    IF p.err THEN Error(p.stub, "create_invoice", args, "Unable to put the state")
                    ELSE Success(p.stub, "create_invoice", args))))))

accept_trade(stub, caller, args) ==
    IF Len(args) < 1 THEN Panic(stub, "accept_trade", args)
    ELSE
    With(retrieve_invoice(stub, Arg(args, 0)), LAMBDA inv :
        IF caller.role # FINANCIER
        THEN Error(stub, "accept_trade", args, "Permission Denied. accept_trade. " \o caller.role \o " !== " \o FINANCIER)
        ELSE
        With(save_changes(stub, [inv EXCEPT !.Financier = caller.username, !.Status = "1"]), LAMBDA s :
            IF s.err THEN Error(s.stub, "accept_trade", args, "Error saving changes")
            ELSE Success(s.stub, "accept_trade", args)))

approve_trade(stub, caller, args) ==
    IF Len(args) < 1 THEN Panic(stub, "approve_trade", args)
    ELSE
    With(retrieve_invoice(stub, Arg(args, 0)), LAMBDA inv :
        IF caller.username # inv.Buyer
        THEN Error(stub, "approve_trade", args, "Permission Denied. approve_trade. " \o caller.username \o " !== " \o inv.Buyer)
        ELSE
        With(save_changes(stub, [inv EXCEPT !.Status = "2"]), LAMBDA s :
            IF s.err THEN Error(s.stub, "approve_trade", args, "Error saving changes")
            ELSE Success(s.stub, "approve_trade", args)))

reject_trade(stub, caller, args) ==
    IF Len(args) < 1 THEN Panic(stub, "reject_trade", args)
    ELSE
    With(retrieve_invoice(stub, Arg(args, 0)), LAMBDA inv :
        IF caller.username # inv.Buyer
        THEN Error(stub, "reject_trade", args, "Permission Denied. reject_trade. " \o caller.username \o " !== " \o inv.Buyer)
        ELSE IF inv.Status = "0"
        THEN Error(stub, "reject_trade", args, "Permission Denied. reject_trade. This invoice hasn't been bought by a third party financier")
        ELSE IF inv.Status = "2"
        THEN Error(stub, "reject_trade", args, "Permission Denied. reject_trade. This invoice has already been approved.")
        ELSE
        With(save_changes(stub, [inv EXCEPT !.Status = "0", !.Financier = "UNDEFINED"]), LAMBDA s :
            IF s.err THEN Error(s.stub, "reject_trade", args, "Error saving changes")
            ELSE Success(s.stub, "reject_trade", args)))

InvoiceInvoke(stub, caller, function, args) ==
    IF function = "create_invoice" THEN create_invoice(stub, caller, args)
    ELSE IF function = "approve_trade" THEN approve_trade(stub, caller, args)
    ELSE IF function = "reject_trade" THEN reject_trade(stub, caller, args)
    ELSE IF function = "accept_trade" THEN accept_trade(stub, caller, args)
    ELSE Error(stub, function, args, "Received unknown function invocation: " \o function)

(***************************************************************************)
(* SpecInvoice: invocations of the invoice-trading chaincode by a seller,  *)
(* two buyers, two financiers and a caller without certificate attributes. *)
(* The seller also creates invoices with arguments that hold a quote.      *)
(* Whether the store accepts a write under the empty key is the host's     *)
(* choice.                                                                 *)
(***************************************************************************)
\* the number of invocations in one behaviour
MaxInvoiceSteps == 4

InvoiceCallers ==
    {[username |-> "s1", role |-> SELLER], [username |-> "b1", role |-> "buyer"], [username |-> "b2", role |-> "buyer"],
     [username |-> "f1", role |-> FINANCIER], [username |-> "f2", role |-> FINANCIER], [username |-> "", role |-> ""]}

InvoiceIds == {"I1", "I2"}

InitInvoice ==
    /\ store = Commit(InvoiceInit(NewStub(EmptyMap, FALSE, {}, Today(0))).stub)
    /\ ownWrites = FALSE
    /\ clock = 0
    /\ last = [fn |-> "init", args |-> <<>>, status |-> "OK", msg |-> "", pre |-> EmptyMap, now |-> Today(0),
               log |-> <<>>, bad |-> {}, caller |-> [username |-> "", role |-> ""]]
    /\ prevSettle = <<>>
    /\ run = NoRun
    /\ steps = 0

InvoiceStep(caller, function, args) ==
    /\ steps < MaxInvoiceSteps
    /\ \E bad \in {{}, {""}} :
       \E r \in {InvoiceInvoke(NewStub(store, ownWrites, bad, Today(clock)), caller, function, args)} :
           /\ store' = IF r.status = "OK" THEN Commit(r.stub) ELSE store
           /\ last' = [fn |-> function, args |-> args, status |-> r.status, msg |-> r.msg, pre |-> store,
                       now |-> Today(clock), log |-> r.stub.log, bad |-> bad, caller |-> caller]
    /\ steps' = steps + 1
    /\ UNCHANGED <<ownWrites, clock, prevSettle, run>>

DoCreateInvoice ==
    \E caller \in InvoiceCallers, id \in InvoiceIds : InvoiceStep(caller, "create_invoice", <<id, "100.00", "0.05", "b1">>)

\* an argument that closes its literal and names a member of its own
Naming(value, member, other) == value \o "\", \"" \o member \o "\": \"" \o other

\* arguments a seller crafts: a quote left open, an amount naming the id of
\* the other invoice, a discount naming a status
CraftedInvoiceArgs ==
    {<<"I1", "100\"", "0.05", "b1">>,
     <<"I2", Naming("100.00", "invoiceid", "I1"), "0.05", "b1">>,
     <<"I1", "100.00", Naming("0.05", "status", "3"), "b1">>}

DoCreateCrafted ==
    \E caller \in {c \in InvoiceCallers : c.role = SELLER}, args \in CraftedInvoiceArgs : InvoiceStep(caller, "create_invoice", args)

DoAcceptTrade == \E caller \in InvoiceCallers, id \in InvoiceIds : InvoiceStep(caller, "accept_trade", <<id>>)

DoApproveTrade == \E caller \in InvoiceCallers, id \in InvoiceIds : InvoiceStep(caller, "approve_trade", <<id>>)

DoRejectTrade == \E caller \in InvoiceCallers, id \in InvoiceIds : InvoiceStep(caller, "reject_trade", <<id>>)

NextInvoice ==
    \/ DoCreateInvoice
    \/ DoCreateCrafted
    \/ DoAcceptTrade
    \/ DoApproveTrade
    \/ DoRejectTrade

SpecInvoice == InitInvoice /\ [][NextInvoice]_vars


\* ---------------------------------------------------------------------------
\* C37  An invoice's status only follows the three-state workflow: it starts
\*      at "0" on create_invoice, moves "0" to "1" only by accept_trade from
\*      a financier, "1" to "2" only by approve_trade from the invoice's
\*      buyer, and "1" to "0" only by reject_trade from the invoice's buyer;
\*      no other change happens, so an approved invoice stays approved.
IsInvoiceAt(st, key) == Has(st, key) /\ st[key].kind = "invoice"

StatusAt(st, key) == IF IsInvoiceAt(st, key) THEN st[key].Status ELSE "none"

WorkflowStep(key, from, to) ==
    \/ from = to
    \/ from = "none" /\ to = "0" /\ last.fn = "create_invoice"
    \/ from = "0" /\ to = "1" /\ last.fn = "accept_trade" /\ last.caller.role = FINANCIER
    \/ from = "1" /\ to = "2" /\ last.fn = "approve_trade" /\ last.caller.username = last.pre[key].Buyer
    \/ from = "1" /\ to = "0" /\ last.fn = "reject_trade" /\ last.caller.username = last.pre[key].Buyer

C37_Case == last.fn \in {"accept_trade", "approve_trade"} /\ last.status = "OK" /\ Len(last.args) = 1 /\ IsInvoiceAt(last.pre, last.args[1])

C37_StatusFollowsWorkflow ==
    \A key \in (DOMAIN store \cup DOMAIN last.pre) \ {""} :
        WorkflowStep(key, StatusAt(last.pre, key), StatusAt(store, key))

\* an approved invoice stays approved
C37_ApprovedStays ==
    \A key \in DOMAIN last.pre \ {""} : StatusAt(last.pre, key) = "2" => StatusAt(store, key) = "2"

\* the steps the workflow names are made by the operation and caller it names
C37_NamedStepsGuarded ==
    \A key \in (DOMAIN store \cup DOMAIN last.pre) \ {""} :
        <<StatusAt(last.pre, key), StatusAt(store, key)>> \in {<<"none", "0">>, <<"0", "1">>, <<"1", "2">>, <<"1", "0">>}
            => WorkflowStep(key, StatusAt(last.pre, key), StatusAt(store, key))


\* ---------------------------------------------------------------------------
\* C38  On a stored invoice, reject_trade succeeds only for the invoice's
\*      buyer on status "1", and then sets status to "0" and financier to
\*      "UNDEFINED"; for a caller who is not the buyer, or on status "0" or
\*      "2", it returns a Permission Denied error and the invoice record
\*      stays as it was.
C38_Invoice == last.pre[last.args[1]]

C38_Case == last.fn = "reject_trade" /\ Len(last.args) = 1 /\ IsInvoiceAt(last.pre, last.args[1])

C38_RejectTrade ==
    C38_Case =>
        IF last.caller.username = C38_Invoice.Buyer /\ C38_Invoice.Status = "1"
        THEN /\ last.status = "OK"
             /\ store = [last.pre EXCEPT ![last.args[1]] = [C38_Invoice EXCEPT !.Status = "0", !.Financier = "UNDEFINED"]]
        ELSE /\ last.status = "ERROR"
             /\ SubSeq(last.msg, 1, 18) = "Permission Denied."
             /\ store = last.pre

\* on the statuses the workflow names the claim holds
C38_OnWorkflowStatus == (C38_Case /\ C38_Invoice.Status \in {"0", "1", "2"}) => C38_RejectTrade

\* the buyer rejected an invoice that a financier had accepted
C38_Witness == C38_Case /\ last.status = "OK" /\ C38_Invoice.Financier = "f1" /\ store[last.args[1]].Financier = "UNDEFINED"

\* the buyer's rejection of an approved invoice was refused
C38_Refused == C38_Case /\ last.caller.username = C38_Invoice.Buyer /\ C38_Invoice.Status = "2"


\* ---------------------------------------------------------------------------
\* C39  create_invoice stores a new invoice and appends its id to the
\*      invoiceIDs holder only when the caller's role is seller and no record
\*      exists under the id; otherwise it returns an error and neither the
\*      invoice record nor the holder changes, so invoiceIDs never lists an
\*      id twice.
InvoiceList(st) == IF Has(st, "invoiceIDs") /\ st["invoiceIDs"].kind = "holder" THEN st["invoiceIDs"].list ELSE <<>>

C39_Case == last.fn = "create_invoice" /\ Len(last.args) = 4

C39_CreateInvoice ==
    /\ NoDuplicates(InvoiceList(store))
    /\ C39_Case /\ last.status = "OK" =>
           /\ last.caller.role = SELLER
           /\ ~Has(last.pre, last.args[1])
           /\ IsInvoiceAt(store, last.args[1])
           /\ store[last.args[1]].InvoiceId = last.args[1]
           /\ InvoiceList(store) = Append(InvoiceList(last.pre), last.args[1])
           /\ DOMAIN store = DOMAIN last.pre \cup {last.args[1]}
    /\ C39_Case /\ (last.caller.role # SELLER \/ Has(last.pre, last.args[1])) =>
           /\ last.status = "ERROR"
           /\ store = last.pre

\* the holder lists no id twice
C39_NoDuplicates == NoDuplicates(InvoiceList(store))

\* with arguments that hold no quote the claim holds
C39_PlainArguments ==
    (C39_Case /\ last.args[2] = "100.00" /\ last.args[3] = "0.05") =>
        IF last.caller.role = SELLER /\ ~Has(last.pre, last.args[1])
        THEN /\ last.status = "OK"
             /\ IsInvoiceAt(store, last.args[1])
             /\ InvoiceList(store) = Append(InvoiceList(last.pre), last.args[1])
        ELSE last.status = "ERROR" /\ store = last.pre

\* a second invoice was created after the first
C39_Witness == C39_Case /\ last.status = "OK" /\ Len(InvoiceList(store)) = 2

\* a seller's create_invoice on an id that holds an invoice was refused
C39_Refused == C39_Case /\ last.caller.role = SELLER /\ Has(last.pre, last.args[1]) /\ last.status = "ERROR"

====
